---- MODULE Spec2Model ----
(***************************************************************************)
(* The store primitive (create.ts), the fork resolver (internals.ts), the  *)
(* ambient scope (utils.ts createScope) and transactions (transaction.ts)  *)
(* of stav, as a state machine.  One action is one synchronous call of the *)
(* public API made by application code, or one step of the JavaScript run  *)
(* time (a throw unwinding the call stack, a promise settling, a promise   *)
(* reaction).  Execution is single threaded, so calls never overlap.       *)
(***************************************************************************)
EXTENDS Integers, Sequences, FiniteSets, TLC

\* ------------------------------------------------------------------ bounds
MaxVal == 2          \* state values are 0..MaxVal
MaxLimit == 2        \* the limit option of history() is 0..MaxLimit or the default
MaxPast == 3         \* entries recorded by an application with the default limit

\* ------------------------------------------------------- program constants
NoTx == 0            \* the null transaction: createScope<Transaction | null>(null)
Undefined == -1      \* a missing argument of createTransaction

Stores == {"A", "B"}
Listeners == {"L1", "L2"}
Values == 0..MaxVal
TxIds == {1, 2, 3}

\* A state value v stands for the object { count: v \div 2, other: v % 2 }.
CountOf(v) == v \div 2

VARIABLES
  app,        \* the application that runs: the stores it creates, with their
              \*   equality function and transaction flags, and what it uses
  root,       \* store -> Internals: the internals captured by create()
  ntx,        \* number of transactions created so far (ids 1..ntx)
  parent,     \* TxIds -> transaction or NoTx: tx.parent
  forks,      \* TxIds -> sequence of [store, state, listeners]: tx.forks,
              \*   a Map in insertion order
  scope,      \* the value held by the createScope closure: ambient transaction
  stack,      \* the transaction(fn) calls whose fn is running, innermost last
  promise,    \* TxIds -> the promises of an asynchronous transaction(fn):
              \*   "none" (no promise), "pending" (the promise returned by fn
              \*   is pending), "fulfilled" (it is fulfilled, the reaction
              \*   registered by then() is queued), "rejected" (it is
              \*   rejected, and so is the promise transaction() returned),
              \*   "committed" (the reaction ran tx.commit(): the promise
              \*   transaction() returned is fulfilled), "failed" (tx.commit()
              \*   threw in the reaction: that promise is rejected)
  unsubs      \* the functions returned by subscribe that the application
              \*   holds: [at, store, listener] are the Internals and the
              \*   listener the closure captured, called tells whether the
              \*   function has been called

vars == <<app, root, ntx, parent, forks, scope, stack, promise, unsubs>>

\* create(initialState, handlers, equalFn): "is" is Object.is, the default;
\* "count" is the custom function of the tests, which compares one field.
equalFn == [s \in Stores |-> app.kind[s].eq]
\* Object.hasOwn(store, nofork), Object.hasOwn(store, nocommit)
nofork == [s \in Stores |-> app.kind[s].nofork]
nocommit == [s \in Stores |-> app.kind[s].nocommit]

\* ---------------------------------------------------------------- equality
\* create.ts: equalFn, default Object.is; the custom function of the tests
\* compares the count field only.
Equal(eq, a, b) ==
  IF eq = "is" THEN a = b ELSE CountOf(a) = CountOf(b)

\* ------------------------------------------------------------- fork lookup
\* tx.forks.get(store): the index of the entry for store, 0 when absent.
ForkIndex(fk, tx, store) ==
  IF \E i \in 1..Len(fk[tx]) : fk[tx][i].store = store
  THEN CHOOSE i \in 1..Len(fk[tx]) : fk[tx][i].store = store
  ELSE 0

HasFork(fk, tx, store) == ForkIndex(fk, tx, store) # 0

ForkOf(fk, tx, store) == fk[tx][ForkIndex(fk, tx, store)]

\* The scope whose Internals a call on store resolves to when tx is ambient:
\* the root (NoTx) without transaction or for a nofork store, else tx's fork.
HomeRoot(tx, store) == NoTx
Home(tx, store) ==
  IF tx = NoTx \/ nofork[store] THEN NoTx ELSE tx

\* The Internals record found at a scope (the fork must exist).
InternalsAt(w, at, store) ==
  IF at = NoTx THEN w.root[store]
  ELSE [state |-> ForkOf(w.forks, at, store).state,
        listeners |-> ForkOf(w.forks, at, store).listeners]

\* [...parentInternals.listeners].filter(([_, inherit]) => inherit)
InheritAll(ls) == ls
InheritNone(ls) == <<>>
Inherited(ls) == SelectSeq(ls, LAMBDA e : e.inherit)

\* internals.ts upsertInternals: the fork map after resolving store under tx.
\* A missing fork is created from the parent's view, which is resolved (and
\* created) first.
\* (a fork resolver that seeds every fork from the root Internals)
upsertFromRoot(w, tx, store) ==
  IF tx = NoTx \/ nofork[store] THEN w
  ELSE IF HasFork(w.forks, tx, store) THEN w
  ELSE [w EXCEPT !.forks[tx] =
          Append(@, [store |-> store, state |-> w.root[store].state,
                     listeners |-> Inherited(w.root[store].listeners)])]

\* (a resolver that does not test the nofork flag)
RECURSIVE upsertUnflagged(_, _, _)
upsertUnflagged(w, tx, store) ==
  IF tx = NoTx THEN w
  ELSE IF HasFork(w.forks, tx, store) THEN w
  ELSE LET w1 == upsertUnflagged(w, parent[tx], store)
           parentInternals == InternalsAt(w1, Home(parent[tx], store), store)
       IN [w1 EXCEPT !.forks[tx] =
             Append(@, [store |-> store, state |-> parentInternals.state,
                        listeners |-> Inherited(parentInternals.listeners)])]

\* (a resolver that seeds a missing fork from the nearest scope that holds
\* one, and creates no fork on the way there)
RECURSIVE upsertLeaf(_, _, _, _)
upsertLeaf(w, tx, from, store) ==
  IF tx = NoTx \/ nofork[store] THEN w
  ELSE IF HasFork(w.forks, tx, store) THEN w
  ELSE IF from # NoTx /\ ~HasFork(w.forks, from, store)
  THEN upsertLeaf(w, tx, parent[from], store)
  ELSE LET seen == InternalsAt(w, from, store)
       IN [w EXCEPT !.forks[tx] =
             Append(@, [store |-> store, state |-> seen.state,
                        listeners |-> Inherited(seen.listeners)])]

upsertNoChain(w, tx, store) ==
  upsertLeaf(w, tx, IF tx = NoTx THEN NoTx ELSE parent[tx], store)

RECURSIVE upsertInternals(_, _, _)
upsertInternals(w, tx, store) ==
  IF tx = NoTx \/ nofork[store] THEN w
  ELSE IF HasFork(w.forks, tx, store) THEN w
  ELSE LET w1 == upsertInternals(w, parent[tx], store)
           parentInternals == InternalsAt(w1, Home(parent[tx], store), store)
           fork == [store |-> store,
                    state |-> parentInternals.state,
                    listeners |-> Inherited(parentInternals.listeners)]
       IN [w1 EXCEPT !.forks[tx] = Append(@, fork)]

\* (a resolver that forks every container of the application at once)
getInternalsEager(w, amb, store) ==
  upsertInternals(upsertInternals(w, amb, "A"), amb, "B")

\* internals.ts getInternals: resolve under the ambient transaction.
getInternals(w, amb, store) == upsertInternals(w, amb, store)

\* Replace the Internals record found at a scope.
PutInternalsShared(w, at, store, rec) ==
  LET w1 == IF at = NoTx THEN [w EXCEPT !.root[store] = rec]
            ELSE [w EXCEPT !.forks[at][ForkIndex(w.forks, at, store)] =
                    [store |-> store, state |-> rec.state,
                     listeners |-> rec.listeners]]
  IN [w1 EXCEPT !.forks =
        [t \in TxIds |->
           [i \in 1..Len(w1.forks[t]) |->
              IF w1.forks[t][i].store = store
              THEN [w1.forks[t][i] EXCEPT !.state = rec.state]
              ELSE w1.forks[t][i]]]]

PutInternals(w, at, store, rec) ==
  IF at = NoTx THEN [w EXCEPT !.root[store] = rec]
  ELSE [w EXCEPT !.forks[at][ForkIndex(w.forks, at, store)] =
          [store |-> store, state |-> rec.state, listeners |-> rec.listeners]]

\* ------------------------------------------------------------------- store
\* The listener calls of one notification loop (create.ts: for (const
\* listener of listeners.keys()) listener(nextState, state)).  bad is the set
\* of listener functions that throw when called: the loop ends at the first.
FirstBad(ls, bad) ==
  IF \E i \in 1..Len(ls) : ls[i].listener \in bad
  THEN CHOOSE i \in 1..Len(ls) :
         /\ ls[i].listener \in bad
         /\ \A j \in 1..(i - 1) : ls[j].listener \notin bad
  ELSE 0

CalledAll(ls, bad) == ls
Called(ls, bad) ==
  IF FirstBad(ls, bad) = 0 THEN ls ELSE SubSeq(ls, 1, FirstBad(ls, bad))

NotifyReversed(ls, at, store, nextState, state, bad) ==
  [i \in 1..Len(Called(ls, bad)) |->
     [at |-> at, store |-> store,
      listener |-> ls[Len(Called(ls, bad)) + 1 - i].listener,
      new |-> nextState, old |-> state]]

Notify(ls, at, store, nextState, state, bad) ==
  [i \in 1..Len(Called(ls, bad)) |->
     [at |-> at, store |-> store, listener |-> ls[i].listener,
      new |-> nextState, old |-> state]]

\* create.ts set, with amb the ambient transaction and nextState the value the
\* updater resolves to.  Result: the world after the call, the listener calls
\* made, and whether a listener threw.
setNoEqualityGate(w, amb, store, nextState, bad) ==
  LET w1 == getInternals(w, amb, store)
      at == Home(amb, store)
      current == InternalsAt(w1, at, store)
  IN [w |-> PutInternals(w1, at, store, [current EXCEPT !.state = nextState]),
      fired |-> Notify(current.listeners, at, store, nextState,
                       current.state, bad),
      threw |-> FirstBad(current.listeners, bad) # 0]

setWritesFirst(w, amb, store, nextState, bad) ==
  LET w1 == getInternals(w, amb, store)
      at == Home(amb, store)
      current == InternalsAt(w1, at, store)
      w2 == PutInternals(w1, at, store, [current EXCEPT !.state = nextState])
  IN IF Equal(equalFn[store], current.state, nextState)
     THEN [w |-> w2, fired |-> <<>>, threw |-> FALSE]
     ELSE [w |-> w2,
           fired |-> Notify(current.listeners, at, store, nextState,
                            current.state, bad),
           threw |-> FirstBad(current.listeners, bad) # 0]

set(w, amb, store, nextState, bad) ==
  LET w1 == getInternals(w, amb, store)
      at == Home(amb, store)
      current == InternalsAt(w1, at, store)
  IN IF Equal(equalFn[store], current.state, nextState)
     THEN [w |-> w1, fired |-> <<>>, threw |-> FALSE]
     ELSE [w |-> PutInternals(w1, at, store,
                              [current EXCEPT !.state = nextState]),
           fired |-> Notify(current.listeners, at, store, nextState,
                            current.state, bad),
           threw |-> FirstBad(current.listeners, bad) # 0]

\* create.ts set with an updater function that throws when it is called
\* (line 32): the Internals have been resolved (line 28), the lines that
\* compare, write and notify (34 to 38) are not reached.
setUpdaterWrites(w, amb, store) ==
  LET r == set(w, amb, store, MaxVal, {})
  IN [w |-> r.w, fired |-> r.fired, threw |-> TRUE]

setUpdaterThrows(w, amb, store) ==
  [w |-> getInternals(w, amb, store), fired |-> <<>>, threw |-> TRUE]

\* create.ts get: the state of the Internals resolved under amb.
\* (a get that reads the root Internals whatever is ambient)
getLive(w, amb, store) == w.root[store].state

get(w, amb, store) ==
  InternalsAt(getInternals(w, amb, store), Home(amb, store), store).state

\* create.ts subscribe: listeners.set(listener, inherit) on the resolved
\* Internals.  Map.set keeps the position of a key that is already present.
MapAppend(ls, listener, inherit) ==
  Append(ls, [listener |-> listener, inherit |-> inherit])
MapSet(ls, listener, inherit) ==
  IF \E i \in 1..Len(ls) : ls[i].listener = listener
  THEN [i \in 1..Len(ls) |->
          IF ls[i].listener = listener
          THEN [listener |-> listener, inherit |-> inherit] ELSE ls[i]]
  ELSE Append(ls, [listener |-> listener, inherit |-> inherit])

\* The function subscribe returns: () => listeners.delete(listener), on the
\* listeners of the Internals subscribe resolved, whatever is ambient when
\* it is called.
MapDelete(ls, listener) == SelectSeq(ls, LAMBDA e : e.listener # listener)

\* (an unsubscribe that deletes the listener from every Internals of the
\* store)
unsubscribeEverywhere(w, at, store, listener) ==
  [root |-> [s \in Stores |->
               IF s = store
               THEN [w.root[s] EXCEPT !.listeners = MapDelete(@, listener)]
               ELSE w.root[s]],
   forks |-> [t \in TxIds |->
                [i \in 1..Len(w.forks[t]) |->
                   IF w.forks[t][i].store = store
                   THEN [w.forks[t][i] EXCEPT
                           !.listeners = MapDelete(@, listener)]
                   ELSE w.forks[t][i]]]]

unsubscribe(w, at, store, listener) ==
  LET current == InternalsAt(w, at, store)
  IN PutInternals(w, at, store,
       [current EXCEPT !.listeners = MapDelete(@, listener)])

Unsub(at, store, listener) ==
  [at |-> at, store |-> store, listener |-> listener, called |-> FALSE]

subscribeAtRoot(w, amb, store, listener, inherit) ==
  [w EXCEPT !.root[store].listeners = MapSet(@, listener, inherit)]

subscribe(w, amb, store, listener, inherit) ==
  LET w1 == getInternals(w, amb, store)
      at == Home(amb, store)
      current == InternalsAt(w1, at, store)
  IN PutInternals(w1, at, store,
       [current EXCEPT !.listeners = MapSet(@, listener, inherit)])

\* ------------------------------------------------------------- transaction
\* transaction.ts commit: scope.act(parent, () => tx.forks.forEach(...)).
\* The forks are visited in insertion order from entry i on; every store that
\* does not carry nocommit is set, with the parent ambient, to the state of
\* its fork.  A listener that throws ends the loop.
\* The ambient transaction of the sets of tx.commit(): scope.act(parent, ...)
TargetRoot(tx) == NoTx
TargetSelf(tx) == tx
Target(tx) == parent[tx]

RECURSIVE commitFrom(_, _, _, _, _)
commitFrom(w, tx, i, bad, calls) ==
  IF i > Len(w.forks[tx]) THEN [w |-> w, fired |-> calls, threw |-> FALSE]
  ELSE LET internals == w.forks[tx][i]
       IN IF nocommit[internals.store]
          THEN commitFrom(w, tx, i + 1, bad, calls)
          ELSE LET r == set(w, Target(tx), internals.store, internals.state,
                            bad)
               IN IF r.threw
                  THEN [w |-> r.w, fired |-> calls \o r.fired, threw |-> TRUE]
                  ELSE commitFrom(r.w, tx, i + 1, bad, calls \o r.fired)

\* (a commit that yields to the parent scope: it skips a store whose state
\* there is no longer the initial one)
RECURSIVE commitYieldsFrom(_, _, _, _, _)
commitYieldsFrom(w, tx, i, bad, calls) ==
  IF i > Len(w.forks[tx]) THEN [w |-> w, fired |-> calls, threw |-> FALSE]
  ELSE LET internals == w.forks[tx][i]
           w1 == getInternals(w, Target(tx), internals.store)
           there == InternalsAt(w1, Home(Target(tx), internals.store),
                                internals.store)
       IN IF nocommit[internals.store] \/ there.state # 0
          THEN commitYieldsFrom(w, tx, i + 1, bad, calls)
          ELSE LET r == set(w, Target(tx), internals.store, internals.state,
                            bad)
               IN IF r.threw
                  THEN [w |-> r.w, fired |-> calls \o r.fired, threw |-> TRUE]
                  ELSE commitYieldsFrom(r.w, tx, i + 1, bad, calls \o r.fired)

commitYields(w, tx, bad) == commitYieldsFrom(w, tx, 1, bad, <<>>)

\* (a commit that sets every forked store, whatever its flags)
RECURSIVE commitAllFrom(_, _, _, _, _)
commitAllFrom(w, tx, i, bad, calls) ==
  IF i > Len(w.forks[tx]) THEN [w |-> w, fired |-> calls, threw |-> FALSE]
  ELSE LET r == set(w, Target(tx), w.forks[tx][i].store,
                    w.forks[tx][i].state, bad)
       IN IF r.threw
          THEN [w |-> r.w, fired |-> calls \o r.fired, threw |-> TRUE]
          ELSE commitAllFrom(r.w, tx, i + 1, bad, calls \o r.fired)

commitAll(w, tx, bad) == commitAllFrom(w, tx, 1, bad, <<>>)

commitConsumes(w, tx, bad) ==
  LET c == commitFrom(w, tx, 1, bad, <<>>)
  IN [c EXCEPT !.w.forks[tx] = <<>>]
commitSkips(w, tx, bad) == [w |-> w, fired |-> <<>>, threw |-> FALSE]
commit(w, tx, bad) == commitFrom(w, tx, 1, bad, <<>>)

\* transaction.ts createTransaction(parent = getTransaction()): the parent
\* of the transaction created by a call with argument arg while amb is
\* ambient.  The default value is taken when the argument is missing.
createTransactionAmbient(arg, amb) == amb
createTransaction(arg, amb) == IF arg = Undefined THEN amb ELSE arg

\* --------------------------------------------------------------- unwinding
\* A frame is a call of transaction(fn) whose fn is running: the transaction
\* it created and the ambient value its tx.act saved.
Frame(tx, saved) == [tx |-> tx, saved |-> saved]

\* A call of tx.act(fn) made by application code whose fn is running:
\* scope.act(tx, fn) with saved = value.  Unlike transaction(), nothing is
\* committed when fn returns.
ActFrame(tx, saved) == [tx |-> tx, saved |-> saved, act |-> TRUE]
IsAct(frame) == frame = ActFrame(frame.tx, frame.saved)
ActDepth(stk) == Cardinality({i \in 1..Len(stk) : IsAct(stk[i])})

\* An exception that unwinds the k innermost frames passes the finally block
\* of each tx.act (utils.ts: value = saved) and is caught by the try block
\* of the code running in the frame below, or stays uncaught when none is left.
UnwoundOne(stk, k) == SubSeq(stk, 1, Len(stk) - 1)
Unwound(stk, k) == SubSeq(stk, 1, Len(stk) - k)
RestoredInnermost(stk, k, amb) == IF k = 0 THEN amb ELSE stk[Len(stk)].saved
Restored(stk, k, amb) == IF k = 0 THEN amb ELSE stk[Len(stk) - k + 1].saved

\* ------------------------------------------------------------------ state
World == [root |-> root, forks |-> forks]

\* The store configurations: the equality function given to create() and
\* the flags set by txConfig / the persist middleware.
Plain == [eq |-> "is", nofork |-> FALSE, nocommit |-> FALSE]
Counted == [eq |-> "count", nofork |-> FALSE, nocommit |-> FALSE]
NoFork == [eq |-> "is", nofork |-> TRUE, nocommit |-> FALSE]
NoCommit == [eq |-> "is", nofork |-> FALSE, nocommit |-> TRUE]

\* An application: the stores it calls, their configuration, how many
\* transactions it creates, the listener functions it subscribes and how
\* many listener entries it keeps, and whether the functions it passes to
\* transaction() return promises, and how deep it nests the tx.act(fn) calls
\* it makes itself around more than one call, and how many of the functions
\* returned by subscribe it holds on to.
App(stores, kindA, kindB, txs, listeners, subs, async, acts, unsubs_) ==
  [stores |-> stores,
   kind |-> [s \in Stores |-> IF s = "A" THEN kindA ELSE kindB],
   txs |-> txs, listeners |-> listeners, subs |-> subs, async |-> async,
   acts |-> acts, unsubs |-> unsubs_]

Apps ==
  {App({"A"}, k, Plain, 2, {"L1"}, 1, FALSE, 0, 0) :
     k \in {Plain, Counted, NoFork, NoCommit}}
  \cup {App({"A", "B"}, Plain, Plain, 1, {"L1"}, 1, FALSE, 0, 0)}
  \cup {App({"A", "B"}, Plain, NoCommit, 1, {}, 0, FALSE, 0, 0)}
  \cup {App({"A"}, Plain, Plain, 1, {"L1", "L2"}, 2, FALSE, 0, 0)}
  \cup {App({"A"}, Plain, Plain, 0, {"L1", "L2"}, 2, FALSE, 0, 2)}
  \cup {App({"A"}, Plain, Plain, 1, {"L1"}, 1, TRUE, 1, 1)}
  \cup {App({"A"}, Plain, Plain, 2, {}, 0, FALSE, 2, 0)}
  \cup {App({"A"}, Plain, Plain, 3, {}, 0, FALSE, 0, 0)}

Init ==
  /\ app \in Apps
  /\ root = [s \in Stores |-> [state |-> 0, listeners |-> <<>>]]
  /\ ntx = 0
  /\ parent = [t \in TxIds |-> NoTx]
  /\ forks = [t \in TxIds |-> <<>>]
  /\ scope = NoTx
  /\ stack = <<>>
  /\ promise = [t \in TxIds |-> "none"]
  /\ unsubs = {}

\* The listener entries held by all Internals, and the listener functions in
\* them.
RECURSIVE Entries(_)
Entries(fk) ==
  IF fk = <<>> THEN <<>> ELSE fk[1].listeners \o Entries(Tail(fk))

RECURSIVE AllEntries(_)
AllEntries(txs) ==
  IF txs = {} THEN <<>>
  ELSE LET t == CHOOSE x \in txs : TRUE
       IN Entries(forks[t]) \o AllEntries(txs \ {t})

RECURSIVE RootEntries(_)
RootEntries(ss) ==
  IF ss = {} THEN <<>>
  ELSE LET s == CHOOSE x \in ss : TRUE
       IN root[s].listeners \o RootEntries(ss \ {s})

Subscribed ==
  LET all == RootEntries(Stores) \o AllEntries(TxIds)
  IN [count |-> Len(all), listeners |-> {all[i].listener : i \in 1..Len(all)}]

\* The listener functions that may throw during a call, and how far the
\* exception of a call that throws unwinds.
Throwers == {{}} \cup {{l} : l \in Subscribed.listeners}
Unwinds(bad) == IF bad = {} THEN {0} ELSE 0..Len(stack)

\* The ambient transactions application code can run a call under: the
\* current one, or tx for a call wrapped as tx.act(() => call).  scope.act
\* restores the saved value when the call returns or throws.
Ambients == {scope} \cup 1..ntx

\* ----------------------------------------------------------------- actions
\* store.get()
Get(amb, store) ==
  /\ LET w == getInternals(World, amb, store)
     IN /\ root' = w.root
        /\ forks' = w.forks
  /\ UNCHANGED <<app, ntx, parent, scope, stack, promise, unsubs>>

\* store.set(v), with the listeners of bad throwing; an exception unwinds k
\* frames (k = 0: caught by the calling code)
SetAtRoot(amb, store, v, bad, k) ==
  LET r == set(World, NoTx, store, v, bad)
  IN /\ root' = r.w.root
     /\ forks' = r.w.forks
     /\ k = 0 \/ r.threw
     /\ stack' = Unwound(stack, k)
     /\ scope' = Restored(stack, k, scope)
     /\ UNCHANGED promise
     /\ UNCHANGED <<app, ntx, parent, unsubs>>

Set(amb, store, v, bad, k) ==
  LET r == set(World, amb, store, v, bad)
  IN /\ root' = r.w.root
     /\ forks' = r.w.forks
     /\ k = 0 \/ r.threw
     /\ stack' = Unwound(stack, k)
     /\ scope' = Restored(stack, k, scope)
     /\ UNCHANGED promise
     /\ UNCHANGED <<app, ntx, parent, unsubs>>

\* store.set(updater) with an updater that throws; the exception unwinds k
\* frames (k = 0: caught by the calling code)
SetThrows(amb, store, k) ==
  LET r == setUpdaterThrows(World, amb, store)
  IN /\ root' = r.w.root
     /\ forks' = r.w.forks
     /\ stack' = Unwound(stack, k)
     /\ scope' = Restored(stack, k, scope)
     /\ UNCHANGED <<app, ntx, parent, promise, unsubs>>

\* store.subscribe(listener, inherit); keep tells whether the application
\* holds on to the function it returns
Subscribe(amb, store, listener, inherit, keep) ==
  /\ Subscribed.count < app.subs
  /\ LET w == subscribe(World, amb, store, listener, inherit)
     IN /\ root' = w.root
        /\ forks' = w.forks
  /\ IF keep
     THEN /\ Cardinality(unsubs) < app.unsubs
          /\ unsubs' = unsubs \cup {Unsub(Home(amb, store), store, listener)}
     ELSE unsubs' = unsubs
  /\ UNCHANGED <<app, ntx, parent, scope, stack, promise>>

\* a function returned by subscribe is called
Unsubscribe(u) ==
  /\ LET w == unsubscribe(World, u.at, u.store, u.listener)
     IN /\ root' = w.root
        /\ forks' = w.forks
  /\ unsubs' = (unsubs \ {u}) \cup {[u EXCEPT !.called = TRUE]}
  /\ UNCHANGED <<app, ntx, parent, scope, stack, promise>>

\* createTransaction(arg); createTransaction() is the case arg = Undefined
CreateTransaction(arg) ==
  /\ ntx < app.txs
  /\ ntx' = ntx + 1
  /\ parent' = [parent EXCEPT ![ntx + 1] = createTransaction(arg, scope)]
  /\ UNCHANGED <<app, root, forks, scope, stack, promise, unsubs>>

\* transaction(fn) is entered: createTransaction(), then tx.act(() => fn(..))
\* saves the ambient value and makes tx ambient
Transaction ==
  /\ ntx < app.txs
  /\ ntx' = ntx + 1
  /\ parent' = [parent EXCEPT ![ntx + 1] = createTransaction(Undefined, scope)]
  /\ stack' = Append(stack, Frame(ntx + 1, scope))
  /\ scope' = ntx + 1
  /\ UNCHANGED <<app, root, forks, promise, unsubs>>

\* fn returns a value that is no promise: tx.act restores the ambient value
\* and transaction() commits before it returns; an exception of the commit
\* unwinds k more frames
TransactionReturn(bad, k) ==
  /\ stack # <<>>
  /\ ~IsAct(stack[Len(stack)])
  /\ LET top == stack[Len(stack)]
         rest == SubSeq(stack, 1, Len(stack) - 1)
         r == commit(World, top.tx, bad)
     IN /\ root' = r.w.root
        /\ forks' = r.w.forks
        /\ k = 0 \/ r.threw
        /\ k <= Len(rest)
        /\ stack' = Unwound(rest, k)
        /\ scope' = Restored(rest, k, top.saved)
  /\ UNCHANGED <<app, ntx, parent, promise, unsubs>>

\* (a return of the promise that leaves the transaction ambient)
TransactionReturnPromiseLeaks ==
  /\ app.async
  /\ stack # <<>>
  /\ ~IsAct(stack[Len(stack)])
  /\ stack' = SubSeq(stack, 1, Len(stack) - 1)
  /\ scope' = scope
  /\ promise' = [promise EXCEPT ![stack[Len(stack)].tx] = "pending"]
  /\ UNCHANGED <<app, root, ntx, parent, forks, unsubs>>

\* fn returns a promise: transaction() returns result.then(...), no commit yet
TransactionReturnPromise ==
  /\ app.async
  /\ stack # <<>>
  /\ ~IsAct(stack[Len(stack)])
  /\ stack' = SubSeq(stack, 1, Len(stack) - 1)
  /\ scope' = stack[Len(stack)].saved
  /\ promise' = [promise EXCEPT ![stack[Len(stack)].tx] = "pending"]
  /\ UNCHANGED <<app, root, ntx, parent, forks, unsubs>>

\* tx.act(fn) is entered by application code: scope.act saves the ambient
\* value and makes tx ambient while fn runs
Act(tx) ==
  /\ ActDepth(stack) < app.acts
  /\ stack' = Append(stack, ActFrame(tx, scope))
  /\ scope' = tx
  /\ UNCHANGED <<app, root, ntx, parent, forks, promise, unsubs>>

\* the fn of the innermost tx.act(fn) returns: finally { value = saved }
ActReturn ==
  /\ stack # <<>>
  /\ IsAct(stack[Len(stack)])
  /\ stack' = SubSeq(stack, 1, Len(stack) - 1)
  /\ scope' = stack[Len(stack)].saved
  /\ UNCHANGED <<app, root, ntx, parent, forks, promise, unsubs>>

\* the running fn throws: the exception unwinds k transaction(fn) or
\* tx.act(fn) calls, none of which commits
ThrowCommits(k) ==
  /\ k >= 1
  /\ LET r == commit(World, stack[Len(stack)].tx, {})
     IN /\ root' = r.w.root
        /\ forks' = r.w.forks
  /\ stack' = Unwound(stack, k)
  /\ scope' = Restored(stack, k, scope)
  /\ UNCHANGED <<app, ntx, parent, promise, unsubs>>

Throw(k) ==
  /\ k >= 1
  /\ stack' = Unwound(stack, k)
  /\ scope' = Restored(stack, k, scope)
     /\ UNCHANGED promise
  /\ UNCHANGED <<app, root, ntx, parent, forks, unsubs>>

\* tx.commit() called by application code
Commit(tx, bad, k) ==
  LET r == commit(World, tx, bad)
  IN /\ root' = r.w.root
     /\ forks' = r.w.forks
     /\ k = 0 \/ r.threw
     /\ stack' = Unwound(stack, k)
     /\ scope' = Restored(stack, k, scope)
     /\ UNCHANGED promise
     /\ UNCHANGED <<app, ntx, parent, unsubs>>

\* the promise returned by the body of an asynchronous transaction settles
Fulfil(tx) ==
  /\ promise[tx] = "pending"
  /\ promise' = [promise EXCEPT ![tx] = "fulfilled"]
  /\ UNCHANGED <<app, root, ntx, parent, forks, scope, stack, unsubs>>

RejectCommits(tx) ==
  /\ promise[tx] = "pending"
  /\ LET r == commit(World, tx, {})
     IN /\ root' = r.w.root
        /\ forks' = r.w.forks
  /\ promise' = [promise EXCEPT ![tx] = "rejected"]
  /\ UNCHANGED <<app, ntx, parent, scope, stack, unsubs>>

\* (a rejection that puts the root states back to the initial state)
RejectUndoes(tx) ==
  /\ promise[tx] = "pending"
  /\ promise' = [promise EXCEPT ![tx] = "rejected"]
  /\ root' = [s \in Stores |-> [root[s] EXCEPT !.state = 0]]
  /\ UNCHANGED <<app, ntx, parent, forks, scope, stack, unsubs>>

Reject(tx) ==
  /\ promise[tx] = "pending"
  /\ promise' = [promise EXCEPT ![tx] = "rejected"]
  /\ UNCHANGED <<app, root, ntx, parent, forks, scope, stack, unsubs>>

\* the reaction registered by result.then runs, as a job of its own on an
\* empty call stack: tx.commit(), then the returned promise is fulfilled
ReactionEarly(tx, bad) ==
  /\ promise[tx] \in {"pending", "fulfilled"}
  /\ stack = <<>>
  /\ LET r == commit(World, tx, bad)
     IN /\ root' = r.w.root
        /\ forks' = r.w.forks
        /\ promise' = [promise EXCEPT
                         ![tx] = IF r.threw THEN "failed" ELSE "committed"]
  /\ UNCHANGED <<app, ntx, parent, scope, stack, unsubs>>

Reaction(tx, bad) ==
  /\ promise[tx] = "fulfilled"
  /\ stack = <<>>
  /\ LET r == commit(World, tx, bad)
     IN /\ root' = r.w.root
        /\ forks' = r.w.forks
        /\ promise' = [promise EXCEPT
                      ![tx] = IF r.threw THEN "failed" ELSE "committed"]
  /\ UNCHANGED <<app, ntx, parent, scope, stack, unsubs>>

Next ==
  \/ \E amb \in Ambients, s \in app.stores : Get(amb, s)
  \/ \E amb \in Ambients, s \in app.stores, v \in Values, bad \in Throwers :
        \E k \in Unwinds(bad) : Set(amb, s, v, bad, k)
  \/ \E amb \in Ambients, s \in app.stores, k \in 0..Len(stack) :
        SetThrows(amb, s, k)
  \/ \E amb \in Ambients, s \in app.stores, l \in app.listeners,
        inherit \in BOOLEAN, keep \in BOOLEAN :
          Subscribe(amb, s, l, inherit, keep)
  \/ \E u \in unsubs : Unsubscribe(u)
  \/ \E arg \in {Undefined, NoTx} \cup 1..ntx : CreateTransaction(arg)
  \/ Transaction
  \/ \E bad \in Throwers :
        \E k \in Unwinds(bad) : TransactionReturn(bad, k)
  \/ TransactionReturnPromise
  \/ \E tx \in 1..ntx : Act(tx)
  \/ ActReturn
  \/ \E k \in 1..Len(stack) : Throw(k)
  \/ \E tx \in 1..ntx, bad \in Throwers :
        \E k \in Unwinds(bad) : Commit(tx, bad, k)
  \/ \E tx \in 1..ntx : Fulfil(tx)
  \/ \E tx \in 1..ntx : Reject(tx)
  \/ \E tx \in 1..ntx, bad \in Throwers : Reaction(tx, bad)

Spec == Init /\ [][Next]_vars

\* The JavaScript run time: code that runs comes to its end (a function
\* passed to transaction() returns or throws), and a queued promise reaction
\* runs once the call stack is empty: the job stays queued while code runs,
\* so code that empties the stack again and again cannot postpone it forever.
Finish ==
  \/ \E bad \in Throwers : \E k \in Unwinds(bad) : TransactionReturn(bad, k)
  \/ TransactionReturnPromise
  \/ ActReturn
  \/ \E k \in 1..Len(stack) : Throw(k)

React == \E tx \in 1..ntx, bad \in Throwers : Reaction(tx, bad)

\* The applications whose functions return promises, under that scheduling.
FairInit == Init /\ app.async

FairSpec == FairInit /\ [][Next]_vars /\ WF_vars(Finish) /\ SF_vars(React)

\* ------------------------------------------------------ history middleware
\* history(store, options) (middleware/history.ts) wraps a store: it creates
\* the store store.history, which holds { tracking, past, future } and is
\* configured with commit: false, and subscribes a tracking listener to the
\* wrapped store with inherit = true.  Here the wrapped store is "A" and its
\* history store is "B".
Wrapped == "A"
HistoryOf == "B"
Tracker == "track"          \* the listener of history.ts lines 94 to 104
Unchanged == -2             \* the symbol a diff function may return
Infinity == -3              \* the default of the limit option

\* The state store.history is created with.
NoHistory == [tracking |-> TRUE, past |-> <<>>, future |-> <<>>]

\* options.diff: the default returns the target state; the custom function
\* compares the count field and returns unchanged when it did not change.
\* options.patch is the default, which returns the delta.
diff(state, targetState) ==
  IF app.diff = "default" THEN targetState
  ELSE IF CountOf(state) = CountOf(targetState) THEN Unchanged
  ELSE targetState

patch(state, delta) == delta

\* [delta, ...past].slice(0, limit)
SliceNone(entries) == entries
Slice(entries) ==
  IF app.limit = Infinity \/ Len(entries) <= app.limit THEN entries
  ELSE SubSeq(entries, 1, app.limit)

\* object.ts assign(changes): store.set(() => ({ ...store.get(), ...changes }))
\* (store.history is compared with shallow, which tells apart two arrays of
\* equal content; it has no listener, so the set leaves the same state either
\* way)
assign(w, amb, store, changes) ==
  LET state == get(w, amb, store)
      merged == [k \in DOMAIN state |->
                   IF k \in DOMAIN changes THEN changes[k] ELSE state[k]]
  IN set(w, amb, store, merged, {}).w

\* The tracking listener, called with the ambient transaction amb; tracked is
\* the value of the tracking scope of history.ts line 41.
track(w, amb, tracked, state, previousState) ==
  IF ~tracked THEN w
  ELSE LET w1 == getInternals(w, amb, HistoryOf)
           h == get(w, amb, HistoryOf)
           delta == diff(state, previousState)
       IN IF ~h.tracking \/ delta = Unchanged THEN w1
          ELSE assign(w1, amb, HistoryOf,
                      [past |-> Slice(<<delta>> \o h.past),
                       future |-> <<>>])

\* store.set(nextState) on the wrapped store: create.ts set, whose
\* notification loop calls the tracking listener when the resolved Internals
\* hold it.
trackedSet(w, amb, nextState, tracked) ==
  LET r == set(w, amb, Wrapped, nextState, {})
  IN IF \E i \in 1..Len(r.fired) : r.fired[i].listener = Tracker
     THEN LET call == r.fired[CHOOSE i \in 1..Len(r.fired) :
                                r.fired[i].listener = Tracker]
          IN track(r.w, amb, tracked, call.new, call.old)
     ELSE r.w

\* store.history.undo() and redo(): the set of the wrapped store runs inside
\* tracking.act(false, ...).
\* (an undo whose set runs with the tracking scope left at true)
undoTracked(w, amb) ==
  LET w1 == getInternals(w, amb, HistoryOf)
      past == get(w, amb, HistoryOf).past
  IN IF past = <<>> THEN w1
     ELSE LET state == get(w1, amb, Wrapped)
              w2 == trackedSet(w1, amb, patch(state, Head(past)), TRUE)
          IN assign(w2, amb, HistoryOf,
                    [past |-> Tail(past),
                     future |-> <<state>> \o get(w2, amb, HistoryOf).future])

undo(w, amb) ==
  LET w1 == getInternals(w, amb, HistoryOf)
      past == get(w, amb, HistoryOf).past
  IN IF past = <<>> THEN w1
     ELSE LET delta == Head(past)
              rest == Tail(past)
              state == get(w1, amb, Wrapped)
              nextState == patch(state, delta)
              futureDelta == diff(nextState, state)
              w2 == trackedSet(w1, amb, nextState, FALSE)
              future == get(w2, amb, HistoryOf).future
          IN assign(w2, amb, HistoryOf,
                    [past |-> rest,
                     future |-> IF futureDelta # Unchanged
                                THEN <<futureDelta>> \o future ELSE future])

redo(w, amb) ==
  LET w1 == getInternals(w, amb, HistoryOf)
      future == get(w, amb, HistoryOf).future
  IN IF future = <<>> THEN w1
     ELSE LET delta == Head(future)
              rest == Tail(future)
              state == get(w1, amb, Wrapped)
              nextState == patch(state, delta)
              pastDelta == diff(nextState, state)
              w2 == trackedSet(w1, amb, nextState, FALSE)
              past == get(w2, amb, HistoryOf).past
          IN assign(w2, amb, HistoryOf,
                    [past |-> IF pastDelta # Unchanged
                              THEN <<pastDelta>> \o past ELSE past,
                     future |-> rest])

\* store.history.clear(), startTracking(), stopTracking()
clear(w, amb) == assign(w, amb, HistoryOf, [past |-> <<>>, future |-> <<>>])
startTracking(w, amb) == assign(w, amb, HistoryOf, [tracking |-> TRUE])
stopTracking(w, amb) == assign(w, amb, HistoryOf, [tracking |-> FALSE])

\* tx.commit() (transaction.ts) in this application: the set of the wrapped
\* store calls the tracking listener of the parent scope, with the tracking
\* scope at its value true.
\* (a commit that also sets the stores configured with commit: false)
RECURSIVE commitHistoryToo(_, _, _)
commitHistoryToo(w, tx, i) ==
  IF i > Len(w.forks[tx]) THEN w
  ELSE LET internals == w.forks[tx][i]
       IN IF internals.store = Wrapped
          THEN commitHistoryToo(
                 trackedSet(w, Target(tx), internals.state, TRUE), tx, i + 1)
          ELSE commitHistoryToo(
                 set(w, Target(tx), internals.store, internals.state, {}).w,
                 tx, i + 1)

RECURSIVE commitTracked(_, _, _)
commitTracked(w, tx, i) ==
  IF i > Len(w.forks[tx]) THEN w
  ELSE LET internals == w.forks[tx][i]
       IN IF nocommit[internals.store] THEN commitTracked(w, tx, i + 1)
          ELSE IF internals.store = Wrapped
          THEN commitTracked(
                 trackedSet(w, Target(tx), internals.state, TRUE), tx, i + 1)
          ELSE commitTracked(
                 set(w, Target(tx), internals.store, internals.state, {}).w,
                 tx, i + 1)

\* The applications that wrap a store with history(): the equality function
\* of the wrapped store, the limit and diff options, and how many
\* transactions they create.
HistoryApp(kindA, limit, diff_, txs) ==
  [stores |-> {Wrapped, HistoryOf},
   kind |-> [s \in Stores |-> IF s = Wrapped THEN kindA ELSE NoCommit],
   txs |-> txs, listeners |-> {}, subs |-> 0, async |-> FALSE,
   acts |-> 0, unsubs |-> 0, limit |-> limit, diff |-> diff_]

HistoryApps ==
  {HistoryApp(Plain, l, d, 0) :
     l \in (0..MaxLimit) \cup {Infinity}, d \in {"default", "count"}}
  \cup {HistoryApp(Counted, MaxLimit, "default", 0)}
  \cup {HistoryApp(Plain, l, "default", 1) : l \in {0, 1}}

HistoryInit ==
  /\ app \in HistoryApps
  /\ root = [s \in Stores |->
               IF s = Wrapped
               THEN [state |-> 0,
                     listeners |-> <<[listener |-> Tracker, inherit |-> TRUE]>>]
               ELSE [state |-> NoHistory, listeners |-> <<>>]]
  /\ ntx = 0
  /\ parent = [t \in TxIds |-> NoTx]
  /\ forks = [t \in TxIds |-> <<>>]
  /\ scope = NoTx
  /\ stack = <<>>
  /\ promise = [t \in TxIds |-> "none"]
  /\ unsubs = {}

\* A call that leaves world w.
Leaves(w) ==
  /\ root' = w.root
  /\ forks' = w.forks
  /\ UNCHANGED <<app, ntx, parent, scope, stack, promise, unsubs>>

\* store.set(v).  With the default limit the application stops setting once
\* the history it sees holds MaxPast entries.
HistorySet(amb, v) ==
  /\ app.limit = Infinity => Len(get(World, amb, HistoryOf).past) < MaxPast
  /\ Leaves(trackedSet(World, amb, v, TRUE))

Undo(amb) == Leaves(undo(World, amb))
Redo(amb) == Leaves(redo(World, amb))
Clear(amb) == Leaves(clear(World, amb))
StartTracking(amb) == Leaves(startTracking(World, amb))
StopTracking(amb) == Leaves(stopTracking(World, amb))
CommitTracked(tx) == Leaves(commitTracked(World, tx, 1))

HistoryNext ==
  \/ \E amb \in Ambients, v \in Values : HistorySet(amb, v)
  \/ \E amb \in Ambients : Undo(amb)
  \/ \E amb \in Ambients : Redo(amb)
  \/ \E amb \in Ambients : Clear(amb)
  \/ \E amb \in Ambients : StartTracking(amb)
  \/ \E amb \in Ambients : StopTracking(amb)
  \/ \E arg \in {Undefined, NoTx} \cup 1..ntx : CreateTransaction(arg)
  \/ \E tx \in 1..ntx : CommitTracked(tx)

HistorySpec == HistoryInit /\ [][HistoryNext]_vars

\* ------------------------------------------------------------- vocabulary
\* The listener functions of a registry, and those called by a notification.
ListenersOf(ls) == {ls[i].listener : i \in 1..Len(ls)}
Invoked(calls) == {calls[i].listener : i \in 1..Len(calls)}

\* Listener function l is subscribed to store at the root and registered in
\* no fork of it.
OnlyAtRoot(l, store) ==
  /\ l \in ListenersOf(root[store].listeners)
  /\ \A t \in 1..ntx :
       HasFork(forks, t, store) =>
         l \notin ListenersOf(ForkOf(forks, t, store).listeners)

\* As OnlyAtRoot, and the subscription at the root is non-inheritable.
RootOnly(l, store) ==
  /\ OnlyAtRoot(l, store)
  /\ \E i \in 1..Len(root[store].listeners) :
       root[store].listeners[i] = [listener |-> l, inherit |-> FALSE]

\* ------------------------------------------------------------------- C1
\* C1 as stated: for a root-level transaction T and any container, a set
\* made inside T.act changes only T's fork: the root state stays what it was
\* and no listener subscribed at the root is invoked; after T.commit() has
\* returned, the root state equals the state of T's fork.
C1_AsStated ==
  \A T \in 1..ntx : parent[T] = NoTx =>
    /\ \A s \in app.stores, v \in Values, bad \in Throwers :
         LET r == set(World, T, s, v, bad)
         IN /\ r.w.root[s].state = root[s].state
            /\ \A u \in TxIds \ {T} : r.w.forks[u] = forks[u]
            /\ \A l \in Listeners :
                 OnlyAtRoot(l, s) => l \notin Invoked(r.fired)
    /\ \A bad \in Throwers :
         LET c == commit(World, T, bad)
         IN ~c.threw =>
              \A s \in app.stores :
                HasFork(forks, T, s) =>
                  c.w.root[s].state = ForkOf(forks, T, s).state

\* C1, amended: for a root-level transaction T and a container without the
\* nofork flag, a set made inside T.act changes only T's fork: the root
\* Internals and the forks of the other transactions stay what they were,
\* and no listener that is subscribed at the root non-inheritably and
\* registered in no fork is invoked.  After T.commit() has returned, the root
\* state of every container T forked that does not carry the nocommit flag
\* is the state of T's fork, or the previous root state when the container's
\* equality function reports the two equal.
C1_Isolation ==
  \A T \in 1..ntx : parent[T] = NoTx =>
    /\ \A s \in app.stores, v \in Values, bad \in Throwers :
         LET r == set(World, T, s, v, bad)
         IN ~nofork[s] =>
              /\ r.w.root = root
              /\ \A u \in TxIds \ {T} : r.w.forks[u] = forks[u]
              /\ \A l \in Listeners :
                   RootOnly(l, s) => l \notin Invoked(r.fired)
    /\ \A bad \in Throwers :
         LET c == commit(World, T, bad)
         IN ~c.threw =>
              \A s \in app.stores :
                (HasFork(forks, T, s) /\ ~nocommit[s]) =>
                  \/ c.w.root[s].state = ForkOf(forks, T, s).state
                  \/ /\ c.w.root[s].state = root[s].state
                     /\ Equal(equalFn[s], root[s].state,
                              ForkOf(forks, T, s).state)

\* A root-level transaction holds a fork of a container without flags whose
\* state differs from the root state, which a listener subscribed only at
\* the root, non-inheritably, has not been told.
C1_Witness ==
  \E T \in 1..ntx, s \in app.stores, l \in Listeners :
    /\ parent[T] = NoTx
    /\ ~nofork[s] /\ ~nocommit[s]
    /\ HasFork(forks, T, s)
    /\ ForkOf(forks, T, s).state # root[s].state
    /\ RootOnly(l, s)

\* ------------------------------------------------------------------- C2
\* The transaction of the innermost transaction(fn) call whose fn is running.
Running == stack[Len(stack)].tx

\* C2 as stated: while the function passed to transaction() runs, a set it
\* makes leaves the root state of every container what it was before the call
\* and invokes no root listener, so that the throw, which commits nothing,
\* leaves the root as it was before the call.
C2_AsStated ==
  stack # <<>> =>
    \A s \in app.stores, v \in Values, bad \in Throwers :
      LET r == set(World, Running, s, v, bad)
      IN /\ r.w.root[s].state = root[s].state
         /\ \A l \in Listeners :
              OnlyAtRoot(l, s) => l \notin Invoked(r.fired)

\* The sets of the running function, for containers without the nofork flag:
\* the root Internals stay what they were and no listener that is subscribed
\* at the root non-inheritably and registered in no fork is invoked.
C2_BodyWrites ==
  stack # <<>> =>
    \A s \in app.stores, v \in Values, bad \in Throwers :
      LET r == set(World, Running, s, v, bad)
      IN ~nofork[s] =>
           /\ r.w.root = root
           /\ \A l \in Listeners :
                RootOnly(l, s) => l \notin Invoked(r.fired)

\* C2, amended: if the function passed to transaction() throws, the
\* exception propagates to the caller (the call is left and the ambient
\* transaction is again what it was before the call) and commit() is not
\* called: the throw changes no root Internals, no fork and no promise.  The
\* sets the function made while its transaction was ambient on containers
\* without the nofork flag have changed no root state and invoked no listener
\* that is subscribed at the root non-inheritably and registered in no fork.
C2_Discard ==
  /\ []C2_BodyWrites
  /\ [][\A k \in 1..Len(stack) :
          Throw(k) =>
            /\ root' = root
            /\ forks' = forks
            /\ promise' = promise
            /\ stack' = SubSeq(stack, 1, Len(stack) - k)
            /\ scope' = stack[Len(stack) - k + 1].saved]_vars

\* The function passed to transaction() runs and has written a fork of a
\* container without flags, whose state differs from the root state, while a
\* listener is subscribed only at the root, non-inheritably: the state in
\* which the function throws.
C2_Witness ==
  /\ stack # <<>>
  /\ scope = Running
  /\ \E s \in app.stores, l \in Listeners :
       /\ ~nofork[s] /\ ~nocommit[s]
       /\ HasFork(forks, Running, s)
       /\ ForkOf(forks, Running, s).state # root[s].state
       /\ RootOnly(l, s)
       /\ ENABLED Throw(1)

\* ------------------------------------------------------------------- C3
\* The state store has in the scope of transaction at (the root for NoTx)
\* in world w: that of the nearest fork on the way to the root.
RECURSIVE Visible(_, _, _)
Visible(w, at, store) ==
  IF at = NoTx \/ nofork[store] THEN w.root[store].state
  ELSE IF HasFork(w.forks, at, store) THEN ForkOf(w.forks, at, store).state
  ELSE Visible(w, parent[at], store)

\* The containers a commit of tx is to write: those it forked that do not
\* carry the nocommit flag.
ToCommit(tx) ==
  {s \in Stores : HasFork(forks, tx, s) /\ ~nocommit[s]}

\* C3: commit is atomic across containers.  For a transaction that forked
\* several containers, after commit() returns or raises, whichever listeners
\* throw, either every container the commit is to write has its fork's state
\* in the parent scope (or kept an equal state there), or none of them has
\* changed in the parent scope.
C3_Atomic ==
  \A T \in 1..ntx, bad \in Throwers :
    LET c == commit(World, T, bad)
    IN \/ \A s \in ToCommit(T) :
            \/ Visible(c.w, parent[T], s) = ForkOf(forks, T, s).state
            \/ /\ Visible(c.w, parent[T], s) = Visible(World, parent[T], s)
               /\ Equal(equalFn[s], Visible(World, parent[T], s),
                        ForkOf(forks, T, s).state)
       \/ \A s \in ToCommit(T) :
            Visible(c.w, parent[T], s) = Visible(World, parent[T], s)

\* ------------------------------------------------------------------- C4
\* A synchronous transaction(fn) started with no ambient transaction is the
\* only one whose fn is running.
RunningAlone ==
  /\ Len(stack) = 1
  /\ stack[1].saved = NoTx
  /\ parent[Running] = NoTx

\* The calls of listener l for store among the listener calls made.
CallsOf(calls, l, store) ==
  {i \in 1..Len(calls) : calls[i].listener = l /\ calls[i].store = store}

\* C4 as stated: for a synchronous transaction(fn) started with no ambient
\* transaction, a set fn makes on any container invokes no non-inheritable
\* listener subscribed at the root; the commit invokes each such listener at
\* most once, with (fork state, root state before the commit), and not at
\* all when the two are equal under the container's equality function.
C4_AsStated ==
  RunningAlone =>
    /\ \A s \in app.stores, v \in Values, bad \in Throwers, l \in Listeners :
         RootOnly(l, s) =>
           l \notin Invoked(set(World, Running, s, v, bad).fired)
    /\ \A s \in app.stores, bad \in Throwers, l \in Listeners :
         LET c == commit(World, Running, bad)
         IN RootOnly(l, s) =>
              /\ Cardinality(CallsOf(c.fired, l, s)) <= 1
              /\ \A i \in CallsOf(c.fired, l, s) :
                   /\ HasFork(forks, Running, s)
                   /\ c.fired[i].new = ForkOf(forks, Running, s).state
                   /\ c.fired[i].old = root[s].state
                   /\ ~Equal(equalFn[s], root[s].state, c.fired[i].new)

\* C4, amended: as stated, for the sets fn makes on containers that do not
\* carry the nofork flag; and when nothing throws, the commit does invoke
\* the listener of a forked container without the nocommit flag whose fork
\* state and root state are not equal.
C4_Batched ==
  RunningAlone =>
    /\ \A s \in app.stores, v \in Values, bad \in Throwers, l \in Listeners :
         (~nofork[s] /\ RootOnly(l, s)) =>
           l \notin Invoked(set(World, Running, s, v, bad).fired)
    /\ \A s \in app.stores, bad \in Throwers, l \in Listeners :
         LET c == commit(World, Running, bad)
         IN RootOnly(l, s) =>
              /\ Cardinality(CallsOf(c.fired, l, s)) <= 1
              /\ \A i \in CallsOf(c.fired, l, s) :
                   /\ HasFork(forks, Running, s)
                   /\ c.fired[i].new = ForkOf(forks, Running, s).state
                   /\ c.fired[i].old = root[s].state
                   /\ ~Equal(equalFn[s], root[s].state, c.fired[i].new)
              /\ ( /\ bad = {}
                   /\ s \in ToCommit(Running)
                   /\ ~Equal(equalFn[s], root[s].state,
                             ForkOf(forks, Running, s).state) )
                 => CallsOf(c.fired, l, s) # {}

\* The function of a synchronous transaction(fn) started with no ambient
\* transaction has set a container to a state that is not equal to the root
\* state, and the commit about to run calls the listener subscribed only at
\* the root, non-inheritably, once with (fork state, root state).
C4_Witness ==
  /\ stack # <<>>
  /\ RunningAlone
  /\ \E s \in app.stores, l \in Listeners :
       LET c == commit(World, Running, {})
       IN /\ RootOnly(l, s)
          /\ HasFork(forks, Running, s)
          /\ ForkOf(forks, Running, s).state = MaxVal
          /\ Cardinality(CallsOf(c.fired, l, s)) = 1
          /\ \E i \in CallsOf(c.fired, l, s) :
               c.fired[i].new = MaxVal /\ c.fired[i].old = 0

\* ------------------------------------------------------------------- C5
\* The function of transaction() T1 runs an inner transaction() T2, whose
\* function is running.
Nested(T1, T2) ==
  /\ Len(stack) >= 2
  /\ stack[Len(stack) - 1].tx = T1
  /\ stack[Len(stack)] = Frame(T2, T1)
  /\ parent[T2] = T1

\* C5 as stated: when T1 has set C and the inner T2 sets C again, T1's fork
\* is not changed by T2 and the root keeps its state, the throw of T2 caught
\* by T1's function changes neither, and the commit of T1 that follows leaves
\* the value T1 wrote, the state of T1's fork, at the parent scope.
C5_AsStated ==
  /\ \A T1 \in 1..ntx, T2 \in 1..ntx :
       Nested(T1, T2) =>
         \A s \in app.stores, v \in Values, bad \in Throwers :
           LET r == set(World, T2, s, v, bad)
           IN /\ HasFork(forks, T1, s) => r.w.forks[T1] = forks[T1]
              /\ r.w.root[s].state = root[s].state
  /\ \A T1 \in 1..ntx, T2 \in 1..ntx :
       (stack # <<>> /\ Running = T1 /\ parent[T2] = T1) =>
         \A s \in app.stores :
           LET c == commit(World, T1, {})
           IN (HasFork(forks, T1, s) /\ HasFork(forks, T2, s)) =>
                Visible(c.w, parent[T1], s) = ForkOf(forks, T1, s).state

\* The sets of the inner function and the commit of the outer transaction,
\* for containers without the nofork flag that T1 has set (of which T1 holds
\* a fork).
C5_InnerWrites ==
  /\ \A T1 \in 1..ntx, T2 \in 1..ntx :
       Nested(T1, T2) =>
         \A s \in app.stores, v \in Values, bad \in Throwers :
           LET r == set(World, T2, s, v, bad)
           IN (~nofork[s] /\ HasFork(forks, T1, s)) =>
                /\ r.w.forks[T1] = forks[T1]
                /\ r.w.root = root
  /\ stack # <<>> =>
       \A s \in ToCommit(Running) :
         LET c == commit(World, Running, {})
         IN \/ Visible(c.w, parent[Running], s)
                = ForkOf(forks, Running, s).state
            \/ /\ Visible(c.w, parent[Running], s)
                    = Visible(World, parent[Running], s)
               /\ Equal(equalFn[s], Visible(World, parent[Running], s),
                        ForkOf(forks, Running, s).state)

\* C5, amended: for a container without the nofork flag that T1 has set, a
\* set of the inner T2 changes neither T1's fork nor the root; the throw of
\* T2 that T1's function catches leaves T1's call running with T1 ambient
\* and changes no fork and no root state; and the commit of T1 that follows
\* leaves, for every container T1 forked that does not carry the nocommit
\* flag, the state of T1's fork at T1's parent scope (or the previous state
\* there when the equality function reports the two equal), never a state
\* found in T2's fork only.
C5_Contained ==
  /\ []C5_InnerWrites
  /\ [][\A T1 \in 1..ntx, T2 \in 1..ntx :
          (Nested(T1, T2) /\ Throw(1)) =>
            /\ forks' = forks
            /\ root' = root
            /\ stack' = SubSeq(stack, 1, Len(stack) - 1)
            /\ scope' = T1]_vars

\* T1 has set a container without flags, the inner T2 has set it again to
\* another state, the root holds a third, and T2's function can throw.
C5_Witness ==
  \E T1 \in 1..ntx, T2 \in 1..ntx, s \in app.stores :
    /\ Nested(T1, T2)
    /\ ~nofork[s] /\ ~nocommit[s]
    /\ HasFork(forks, T1, s) /\ HasFork(forks, T2, s)
    /\ ForkOf(forks, T1, s).state # root[s].state
    /\ ForkOf(forks, T2, s).state # ForkOf(forks, T1, s).state
    /\ ForkOf(forks, T2, s).state # root[s].state
    /\ ENABLED Throw(1)

\* ------------------------------------------------------------------- C6
\* C6 as stated: while the function of an inner transaction() runs, a set it
\* makes leaves the root state of every container what it was and invokes no
\* root listener, and the throw that the enclosing function does not catch
\* unwinds both calls and commits neither transaction.
C6_AsStated ==
  \A T1 \in 1..ntx, T2 \in 1..ntx :
    Nested(T1, T2) =>
      \A s \in app.stores, v \in Values, bad \in Throwers :
        LET r == set(World, T2, s, v, bad)
        IN /\ r.w.root[s].state = root[s].state
           /\ \A l \in Listeners :
                OnlyAtRoot(l, s) => l \notin Invoked(r.fired)

\* The sets of the inner function on containers without the nofork flag.
C6_InnerWrites ==
  \A T1 \in 1..ntx, T2 \in 1..ntx :
    Nested(T1, T2) =>
      \A s \in app.stores, v \in Values, bad \in Throwers :
        LET r == set(World, T2, s, v, bad)
        IN ~nofork[s] =>
             /\ r.w.root = root
             /\ \A l \in Listeners :
                  RootOnly(l, s) => l \notin Invoked(r.fired)

\* C6, amended: when an inner transaction() throws and the enclosing
\* function does not catch it, the exception unwinds through both calls,
\* the ambient transaction is again what it was before the outer call, and
\* neither transaction commits: no container changes in the parent scope of
\* either, no fork and no root state changes.  The sets the two functions
\* made on containers without the nofork flag have changed no root state and
\* invoked no listener that is subscribed at the root non-inheritably and
\* registered in no fork.
C6_Uncaught ==
  /\ []C6_InnerWrites
  /\ []C2_BodyWrites
  /\ [][\A T1 \in 1..ntx, T2 \in 1..ntx, k \in 2..Len(stack) :
          (Nested(T1, T2) /\ Throw(k)) =>
            /\ stack' = SubSeq(stack, 1, Len(stack) - k)
            /\ scope' = stack[Len(stack) - k + 1].saved
            /\ root' = root
            /\ forks' = forks
            /\ \A s \in app.stores :
                 /\ Visible([root |-> root', forks |-> forks'], T1, s)
                      = Visible(World, T1, s)
                 /\ Visible([root |-> root', forks |-> forks'],
                            parent[T1], s)
                      = Visible(World, parent[T1], s)]_vars

\* Both functions have set a container without flags on which a listener is
\* subscribed only at the root, non-inheritably: the root state and the two
\* fork states differ, and the inner function can throw through both calls.
C6_Witness ==
  \E T1 \in 1..ntx, T2 \in 1..ntx, s \in app.stores, l \in Listeners :
    /\ Nested(T1, T2)
    /\ parent[T1] = NoTx
    /\ ~nofork[s] /\ ~nocommit[s]
    /\ RootOnly(l, s)
    /\ HasFork(forks, T1, s) /\ HasFork(forks, T2, s)
    /\ ForkOf(forks, T1, s).state # root[s].state
    /\ ForkOf(forks, T2, s).state # ForkOf(forks, T1, s).state
    /\ ENABLED Throw(2)

\* ------------------------------------------------------------------- C7
\* C7: commit hands state up exactly one level.  For a transaction T2 whose
\* parent is the transaction T1, T2.commit() changes T1's forks only: the
\* root Internals of every container and the forks of every other
\* transaction stay what they were, every listener call is made from T1's
\* forks, and no listener subscribed only at the root, non-inheritably, is
\* invoked, whichever listeners throw.  When the commit returns, every
\* container it is to write has T2's fork state in T1's fork (or kept a
\* state there that the equality function reports equal), and for a
\* root-level T1 the commit of T1 that follows is what takes that state to
\* the root.
C7_OneLevel ==
  \A T1 \in 1..ntx, T2 \in 1..ntx, bad \in Throwers :
    parent[T2] = T1 =>
      LET c == commit(World, T2, bad)
      IN /\ c.w.root = root
         /\ \A u \in TxIds \ {T1} : c.w.forks[u] = forks[u]
         /\ \A i \in 1..Len(c.fired) : c.fired[i].at = T1
         /\ \A s \in app.stores, l \in Listeners :
              RootOnly(l, s) => CallsOf(c.fired, l, s) = {}
         /\ ~c.threw =>
              \A s \in ToCommit(T2) :
                /\ HasFork(c.w.forks, T1, s)
                /\ \/ ForkOf(c.w.forks, T1, s).state
                        = ForkOf(forks, T2, s).state
                   \/ /\ ForkOf(c.w.forks, T1, s).state
                           = Visible(World, T1, s)
                      /\ Equal(equalFn[s], Visible(World, T1, s),
                               ForkOf(forks, T2, s).state)
                /\ (parent[T1] = NoTx /\ equalFn[s] = "is") =>
                     commit(c.w, T1, {}).w.root[s].state
                       = ForkOf(forks, T2, s).state

\* T2, a child of the root-level T1, holds a fork of a container without
\* flags whose state differs from the state of T1's fork and from the root
\* state, a listener is subscribed only at the root, non-inheritably, and
\* T2.commit() changes T1's fork.
C7_Witness ==
  \E T1 \in 1..ntx, T2 \in 1..ntx, s \in app.stores, l \in Listeners :
    /\ parent[T2] = T1
    /\ parent[T1] = NoTx
    /\ ~nofork[s] /\ ~nocommit[s]
    /\ RootOnly(l, s)
    /\ HasFork(forks, T1, s) /\ HasFork(forks, T2, s)
    /\ ForkOf(forks, T2, s).state # ForkOf(forks, T1, s).state
    /\ ForkOf(forks, T2, s).state # root[s].state
    /\ commit(World, T2, {}).w.forks[T1] # forks[T1]

\* ------------------------------------------------------------------- C8
\* This step is a run of tx.commit() in which the listeners of bad throw:
\* called by application code, by transaction() when its function returns,
\* or by the reaction of an asynchronous transaction().
CommitStep(tx, bad) ==
  \/ \E k \in Unwinds(bad) : Commit(tx, bad, k)
  \/ /\ stack # <<>>
     /\ Running = tx
     /\ \E k \in Unwinds(bad) : TransactionReturn(bad, k)
  \/ Reaction(tx, bad)

\* Once T holds a fork for a container, get() with T ambient returns the
\* state of that fork, and no call made with another ambient transaction (at
\* the root, in an ancestor, in any other transaction) and no commit other
\* than that of a child of T, T's own included, changes the fork.
C8_Writes ==
  LET w == World
      throwers == Throwers
      held == {<<T, s>> \in (1..ntx) \X app.stores : HasFork(forks, T, s)}
      Kept(fk, T, s) == ForkOf(fk, T, s) = ForkOf(forks, T, s)
  IN  held # {} =>
        /\ \A h \in held :
             /\ get(w, h[1], h[2]) = ForkOf(forks, h[1], h[2]).state
             /\ getInternals(w, h[1], h[2]) = w
        /\ \A amb \in 0..ntx, s2 \in app.stores :
             /\ \A v \in Values, bad \in throwers :
                  LET fk == set(w, amb, s2, v, bad).w.forks
                  IN  \A h \in held : h[1] # amb => Kept(fk, h[1], h[2])
             /\ LET fk == getInternals(w, amb, s2).forks
                IN  \A h \in held : h[1] # amb => Kept(fk, h[1], h[2])
        /\ \A u \in 1..ntx, bad \in throwers :
             LET fk == commit(w, u, bad).w.forks
             IN  \A h \in held : parent[u] # h[1] => Kept(fk, h[1], h[2])

\* C8: snapshot stability.  Once transaction T holds a fork for container
\* C, T keeps it, and the value C.get() returns while T is ambient, the
\* state of that fork, changes only in a step that is a set on C executed
\* with T ambient or the commit of a child of T: never through writes at the
\* root, in ancestors or in other transactions, whether T's function is
\* running, is suspended, or T has committed.
C8_Stable ==
  /\ []C8_Writes
  /\ [][\/ forks' = forks
        \/ \A T \in 1..ntx, s \in app.stores :
             HasFork(forks, T, s) =>
               /\ HasFork(forks', T, s)
               /\ \/ ForkOf(forks', T, s).state = ForkOf(forks, T, s).state
                  \/ \E v \in {ForkOf(forks', T, s).state}, bad \in Throwers :
                       \E k \in Unwinds(bad) : Set(T, s, v, bad, k)
                  \/ \E u \in {c \in 1..ntx : parent[c] = T} :
                       \E bad \in Throwers : CommitStep(u, bad)]_vars

\* The function of an asynchronous transaction() is suspended, its
\* transaction holds a fork whose state differs from the root state.
C8_Witness ==
  \E T \in 1..ntx, s \in app.stores :
    /\ promise[T] = "pending"
    /\ stack = <<>>
    /\ HasFork(forks, T, s)
    /\ ForkOf(forks, T, s).state # root[s].state
    /\ get(World, T, s) # get(World, NoTx, s)

\* ------------------------------------------------------------------- C9
\* Transaction a is an ancestor of t.
RECURSIVE Ancestor(_, _)
Ancestor(a, t) ==
  /\ t # NoTx
  /\ parent[t] # NoTx
  /\ (parent[t] = a \/ Ancestor(a, parent[t]))

Unrelated(T1, T2) ==
  T1 # T2 /\ ~Ancestor(T1, T2) /\ ~Ancestor(T2, T1)

\* C9: sibling isolation.  The value get() returns is the state visible in
\* the scope of the ambient transaction, found on the way from it to the
\* root: the root state when none is ambient.  For two transactions neither
\* of which is an ancestor of the other, no set or get made with one ambient
\* changes a fork of the other or the value get() returns with the other
\* ambient, so that get() in one never returns a value found only in the
\* other's fork.
C9_Siblings ==
  /\ \A amb \in 0..ntx, s \in app.stores :
       get(World, amb, s) = Visible(World, amb, s)
  /\ \A s \in app.stores : get(World, NoTx, s) = root[s].state
  /\ \A T1 \in 1..ntx, T2 \in 1..ntx :
       Unrelated(T1, T2) =>
         \A s \in app.stores :
           /\ getInternals(World, T2, s).forks[T1] = forks[T1]
           /\ get(getInternals(World, T2, s), T1, s) = get(World, T1, s)
           /\ \A v \in Values, bad \in Throwers :
                LET r == set(World, T2, s, v, bad)
                IN /\ r.w.forks[T1] = forks[T1]
                   /\ ~nofork[s] =>
                        /\ get(r.w, T1, s) = get(World, T1, s)
                        /\ get(r.w, NoTx, s) = get(World, NoTx, s)

\* Two transactions neither of which is an ancestor of the other hold forks
\* of the same container whose states differ from each other and from the
\* root state.
C9_Witness ==
  \E T1 \in 1..ntx, T2 \in 1..ntx, s \in app.stores :
    /\ Unrelated(T1, T2)
    /\ HasFork(forks, T1, s) /\ HasFork(forks, T2, s)
    /\ get(World, T1, s) # get(World, T2, s)
    /\ get(World, T1, s) # get(World, NoTx, s)
    /\ get(World, T2, s) # get(World, NoTx, s)

\* ------------------------------------------------------------------ C10
\* The function of the asynchronous transaction(fn) that created tx has
\* returned its promise, and the commit of transaction() has not run.
Uncommitted(tx) == promise[tx] \in {"pending", "fulfilled", "rejected"}

Settled(tx) == promise[tx] \in {"committed", "failed"}

\* C10 as stated: until the commit of an asynchronous transaction(fn) runs,
\* a set its function makes through act leaves the root state unchanged and
\* invokes no root listener.
C10_AsStated ==
  \A T \in 1..ntx :
    Uncommitted(T) =>
      \A s \in app.stores, v \in Values, bad \in Throwers :
        LET r == set(World, T, s, v, bad)
        IN /\ r.w.root[s].state = root[s].state
           /\ \A l \in Listeners :
                OnlyAtRoot(l, s) => l \notin Invoked(r.fired)

\* The sets made through act before the commit, on containers without the
\* nofork flag.
C10_ActWrites ==
  \A T \in 1..ntx :
    Uncommitted(T) =>
      \A s \in app.stores, v \in Values, bad \in Throwers :
        LET r == set(World, T, s, v, bad)
        IN ~nofork[s] =>
             /\ r.w.root = root
             /\ \A l \in Listeners :
                  RootOnly(l, s) => l \notin Invoked(r.fired)

\* C10, amended: when the function passed to transaction() returns a
\* promise, transaction() runs commit() only in the reaction to that promise
\* fulfilling: not while it is pending, never when it is rejected or never
\* settles, and once it is fulfilled the commit runs, exactly once, and the
\* promise transaction() returned is settled by that run and not again.
\* Until then the sets the function makes through act on containers without
\* the nofork flag change no root state and invoke no listener that is
\* subscribed at the root non-inheritably and registered in no fork.
C10_AsyncCommit ==
  /\ []C10_ActWrites
  /\ [][\A T \in 1..ntx :
          /\ (promise[T] = "pending" /\ promise'[T] # "pending") =>
               /\ promise'[T] \in {"fulfilled", "rejected"}
               /\ root' = root /\ forks' = forks
          /\ (Settled(T) \/ promise[T] = "rejected") =>
               promise'[T] = promise[T]
          /\ (~Settled(T) /\ Settled(T)') =>
               /\ promise[T] = "fulfilled"
               /\ \E bad \in Throwers :
                    LET c == commit(World, T, bad)
                    IN /\ root' = c.w.root
                       /\ forks' = c.w.forks
                       /\ promise'[T] =
                            IF c.threw THEN "failed" ELSE "committed"]_vars
  /\ \A T \in TxIds : (promise[T] = "fulfilled") ~> Settled(T)

\* The promise returned by the function of an asynchronous transaction() is
\* fulfilled and the commit has run: the root holds the state the function
\* wrote through act, and the listener subscribed only at the root,
\* non-inheritably, was not invoked before.
C10_Witness ==
  \E T \in 1..ntx, s \in app.stores, l \in Listeners :
    /\ promise[T] = "committed"
    /\ RootOnly(l, s)
    /\ HasFork(forks, T, s)
    /\ root[s].state = ForkOf(forks, T, s).state
    /\ root[s].state = MaxVal

\* ------------------------------------------------------------------ C11
\* The function of the asynchronous transaction(fn) that created tx has
\* returned a promise that has not fulfilled: it is pending or rejected.
Unfulfilled(tx) == promise[tx] \in {"pending", "rejected"}

\* C11 as stated: when the promise returned by the function rejects, the
\* commit never runs, every write the function makes through act leaves the
\* root state at its value, and no root listener is invoked.
C11_AsStated ==
  \A T \in 1..ntx :
    Unfulfilled(T) =>
      \A s \in app.stores, v \in Values, bad \in Throwers :
        LET r == set(World, T, s, v, bad)
        IN /\ r.w.root[s].state = root[s].state
           /\ \A l \in ListenersOf(root[s].listeners) :
                l \notin Invoked(r.fired)

\* The writes made through act by a function whose promise has not
\* fulfilled, on containers without the nofork flag.
C11_ActWrites ==
  \A T \in 1..ntx :
    Unfulfilled(T) =>
      \A s \in app.stores, v \in Values, bad \in Throwers :
        LET r == set(World, T, s, v, bad)
        IN ~nofork[s] =>
             /\ r.w.root = root
             /\ \A u \in TxIds \ {T} : r.w.forks[u] = forks[u]
             /\ \A l \in Listeners :
                  RootOnly(l, s) => l \notin Invoked(r.fired)

\* C11, amended: when the promise returned by the function passed to
\* transaction() rejects, the rejection itself changes no root state and no
\* fork and rejects the promise transaction() returned; that promise stays
\* rejected and the reaction that commits never runs.  The writes the
\* function makes through act on containers without the nofork flag, before
\* and after the rejection, change no root state and invoke no listener that
\* is subscribed at the root non-inheritably and registered in no fork.
C11_AsyncFailure ==
  /\ []C11_ActWrites
  /\ [][\A T \in 1..ntx :
          /\ (promise[T] # "rejected" /\ promise'[T] = "rejected") =>
               /\ promise[T] = "pending"
               /\ root' = root /\ forks' = forks
               /\ scope' = scope /\ stack' = stack
          /\ promise[T] = "rejected" =>
               /\ promise'[T] = "rejected"
               /\ \A bad \in Throwers : ~Reaction(T, bad)]_vars

\* The promise returned by the function is rejected after the function wrote
\* through act: the fork holds the written state, the root its state from
\* before the transaction, and a listener is subscribed only at the root.
C11_Witness ==
  \E T \in 1..ntx, s \in app.stores, l \in Listeners :
    /\ promise[T] = "rejected"
    /\ RootOnly(l, s)
    /\ HasFork(forks, T, s)
    /\ ForkOf(forks, T, s).state = MaxVal
    /\ root[s].state = 0

\* ------------------------------------------------------------------ C12
\* The ambient transaction while the fn of an act call runs is the
\* transaction of the innermost call, and every call on the stack saved the
\* value that was ambient when it was entered: the transaction of the call
\* below it, null for the outermost.
C12_Ambient ==
  /\ scope = IF stack = <<>> THEN NoTx ELSE stack[Len(stack)].tx
  /\ \A i \in 1..Len(stack) :
       stack[i].saved = IF i = 1 THEN NoTx ELSE stack[i - 1].tx

\* C12: entering T.act(fn) makes T ambient and saves the value ambient
\* before; the calls below are left as they are while fn runs, whatever act
\* calls fn nests on the same or other transactions; when act calls return or
\* are left by an exception, the ambient transaction is the value that was
\* ambient immediately before the outermost of the calls left; a call made
\* and completed inside one step leaves the ambient transaction as it was.
C12_ActRestores ==
  /\ []C12_Ambient
  /\ [][/\ Len(stack') <= Len(stack) + 1
        /\ \A i \in 1..Len(stack) : i <= Len(stack') => stack'[i] = stack[i]
        /\ Len(stack') = Len(stack) + 1 =>
             /\ stack'[Len(stack')].saved = scope
             /\ scope' = stack'[Len(stack')].tx
        /\ Len(stack') = Len(stack) => scope' = scope
        /\ Len(stack') < Len(stack) =>
             /\ scope' = stack[Len(stack') + 1].saved
             /\ scope' = IF stack' = <<>> THEN NoTx
                         ELSE stack'[Len(stack')].tx]_vars

\* Three act calls are nested, the innermost re-entering the transaction of
\* the outermost around a call on another transaction, and the function of
\* the innermost can throw through all of them.
C12_Witness ==
  /\ Len(stack) >= 3
  /\ stack[1].tx = stack[3].tx
  /\ stack[2].tx # stack[1].tx
  /\ IsAct(stack[2]) /\ IsAct(stack[3])
  /\ scope = stack[1].tx
  /\ ENABLED Throw(3)

\* ------------------------------------------------------------------ C13
\* The root state of some container differs after the step.
RootStateChanges == \E s \in Stores : root'[s].state # root[s].state

\* C13 as stated: no set executed while a transaction is ambient, the sets
\* of the commit of a transaction with a parent included, changes the root
\* state of any container.
C13_AsStated ==
  /\ \A amb \in 1..ntx, s \in app.stores, v \in Values, bad \in Throwers :
       \A s2 \in Stores :
         set(World, amb, s, v, bad).w.root[s2].state = root[s2].state
  /\ \A tx \in 1..ntx, bad \in Throwers :
       parent[tx] # NoTx =>
         \A s2 \in Stores :
           commit(World, tx, bad).w.root[s2].state = root[s2].state

\* A set on a container without the nofork flag executed with a transaction
\* ambient, and the commit of a transaction that has a parent, leave the
\* root Internals of every container as they are.
C13_AmbientSets ==
  /\ \A amb \in 1..ntx, s \in app.stores, v \in Values, bad \in Throwers :
       ~nofork[s] => set(World, amb, s, v, bad).w.root = root
  /\ \A tx \in 1..ntx, bad \in Throwers :
       parent[tx] # NoTx => commit(World, tx, bad).w.root = root

\* C13, amended: the root state of a container changes only in a step that
\* is a set executed while no transaction is ambient, a set on a container
\* that carries the nofork flag, or the commit of a transaction whose parent
\* is null; no set on a container without the nofork flag executed while a
\* transaction is ambient changes the root state of any container.
C13_RootMutation ==
  /\ []C13_AmbientSets
  /\ [][RootStateChanges =>
          \/ /\ scope = NoTx
             /\ \E s \in app.stores, v \in Values, bad \in Throwers :
                  \E k \in Unwinds(bad) : Set(NoTx, s, v, bad, k)
          \/ \E amb \in 1..ntx, s \in app.stores, v \in Values,
                bad \in Throwers :
               /\ nofork[s]
               /\ \E k \in Unwinds(bad) : Set(amb, s, v, bad, k)
          \/ \E tx \in 1..ntx, bad \in Throwers :
               parent[tx] = NoTx /\ CommitStep(tx, bad)]_vars

\* A transaction is ambient and holds a fork of a container without the
\* nofork flag whose state it has set, after the root state was set with no
\* transaction ambient; the two differ.
C13_Witness ==
  \E s \in app.stores :
    /\ scope # NoTx
    /\ ~nofork[s]
    /\ HasFork(forks, scope, s)
    /\ ForkOf(forks, scope, s).state = MaxVal
    /\ root[s].state = 1

\* ------------------------------------------------------------------ C14
\* The Internals the sets of tx.commit() resolve to for store: those of the
\* parent scope, the parent's fork being created when it is missing.
ParentInternals(w, tx, store) ==
  InternalsAt(getInternals(w, Target(tx), store), Home(Target(tx), store),
              store)

\* The listener calls of a notification for store.
CallsFor(calls, store) == SelectSeq(calls, LAMBDA c : c.store = store)

\* C14 as stated: every call of commit() sets the parent-scope state of
\* every container the transaction forked to the state of the fork, and the
\* parent-scope listeners are called exactly when the two states differ.
C14_AsStated ==
  \A T \in 1..ntx :
    LET c == commit(World, T, {})
    IN \A s \in app.stores :
         HasFork(forks, T, s) =>
           /\ Visible(c.w, parent[T], s) = ForkOf(forks, T, s).state
           /\ (ForkOf(forks, T, s).state # Visible(World, parent[T], s)
                 /\ ParentInternals(World, T, s).listeners # <<>>)
                => CallsFor(c.fired, s) # <<>>

\* C14, amended: commit() may be called in any state of the transaction and
\* any number of times.  Each call leaves the forks of the transaction as
\* they are and, when it returns, has set the parent-scope state of every
\* forked container without the nocommit flag to the current state of the
\* fork, whoever wrote it, unless the container's equality function reports
\* the two equal.  The parent-scope listeners of such a container are called
\* on a call, each once with (fork state, parent-scope state), exactly when
\* the equality function reports the two states not equal, up to the first
\* listener that throws; those of a nocommit container are never called.  A
\* second commit directly after one that returned changes nothing and calls
\* no listener.
C14_EachCommit ==
  \A T \in 1..ntx, bad \in Throwers :
    LET c == commit(World, T, bad)
        again == commit(c.w, T, {})
    IN /\ c.w.forks[T] = forks[T]
       /\ \A s \in Stores \ ToCommit(T) :
            /\ CallsFor(c.fired, s) = <<>>
            /\ HasFork(forks, T, s) =>
                 Visible(c.w, parent[T], s) = Visible(World, parent[T], s)
       /\ ~c.threw =>
            /\ \A s \in ToCommit(T) :
                 LET before == ParentInternals(World, T, s)
                     fork == ForkOf(forks, T, s)
                 IN IF Equal(equalFn[s], before.state, fork.state)
                    THEN /\ Visible(c.w, parent[T], s) = before.state
                         /\ CallsFor(c.fired, s) = <<>>
                    ELSE /\ Visible(c.w, parent[T], s) = fork.state
                         /\ CallsFor(c.fired, s) =
                              Notify(before.listeners, Home(Target(T), s), s,
                                     fork.state, before.state, bad)
            /\ again.w = c.w
            /\ again.fired = <<>>
            /\ ~again.threw

\* C14, amended: in every reachable state of a transaction, whatever commits
\* and writes came before, a call of commit() behaves as C14_EachCommit says:
\* it re-applies the current state of each fork to the parent scope, calls
\* the parent-scope listeners exactly when the equality function reports a
\* difference, and repeated directly it changes nothing and calls nobody.
C14_Repeatable == []C14_EachCommit

\* T has a child that committed into T's fork after the parent-scope state
\* of the container had been written: the fork of T holds the state of the
\* child's fork, the parent scope (the root) another state that is not the
\* initial one, a listener is subscribed there, and a commit of T calls it.
C14_Witness ==
  \E T \in 1..ntx, U \in 1..ntx, s \in app.stores :
    /\ parent[U] = T /\ parent[T] = NoTx
    /\ ~nocommit[s] /\ ~nofork[s]
    /\ HasFork(forks, T, s) /\ HasFork(forks, U, s)
    /\ ForkOf(forks, U, s).state = MaxVal
    /\ ForkOf(forks, T, s).state = MaxVal
    /\ root[s].state = 1
    /\ root[s].listeners # <<>>
    /\ CallsFor(commit(World, T, {}).fired, s) # <<>>

\* ------------------------------------------------------------------ C15
\* The state and the listeners visible in the nearest enclosing scope of tx:
\* those of the nearest ancestor that holds a fork of store, else the root's.
RECURSIVE VisibleListeners(_, _, _)
VisibleListeners(w, at, store) ==
  IF at = NoTx \/ nofork[store] THEN w.root[store].listeners
  ELSE IF HasFork(w.forks, at, store)
       THEN ForkOf(w.forks, at, store).listeners
       ELSE Inherited(VisibleListeners(w, parent[at], store))

\* C15: when a container is first accessed (get, set or subscribe) while T
\* is ambient, the fork T receives is seeded with the state visible in T's
\* nearest enclosing scope: the state of the fork of the nearest ancestor
\* that holds one, else the root state, and with the inheritable listeners
\* found there.  get returns the seed, set compares its argument with the
\* seed and passes it to the listeners as the old state, subscribe leaves it
\* in the fork.  The access leaves the state every scope sees as it was; a
\* container with the nofork flag is never forked.
C15_FirstAccess ==
  \A T \in 1..ntx, s \in app.stores :
    ~HasFork(forks, T, s) =>
      LET w1 == getInternals(World, T, s)
          seed == Visible(World, parent[T], s)
      IN /\ HasFork(w1.forks, T, s) <=> ~nofork[s]
         /\ w1.root = root
         /\ \A u \in 1..ntx : Visible(w1, u, s) = Visible(World, u, s)
         /\ ~nofork[s] =>
              /\ ForkOf(w1.forks, T, s).state = seed
              /\ ForkOf(w1.forks, T, s).listeners
                   = Inherited(VisibleListeners(World, parent[T], s))
              /\ get(World, T, s) = seed
              /\ \A l \in Listeners, inherit \in BOOLEAN :
                   ForkOf(subscribe(World, T, s, l, inherit).forks, T, s).state
                     = seed
              /\ \A v \in Values :
                   LET r == set(World, T, s, v, {})
                   IN /\ ForkOf(r.w.forks, T, s).state =
                           IF Equal(equalFn[s], seed, v) THEN seed ELSE v
                      /\ \A i \in 1..Len(r.fired) : r.fired[i].old = seed

\* C15: in every reachable state, the first access to a container with T
\* ambient seeds T's fork as C15_FirstAccess says: from the fork of the
\* nearest ancestor that holds one, else from the root, never from the root
\* when an ancestor holds a fork.
C15_Seeding == []C15_FirstAccess

\* T is a grandchild: its parent holds no fork of the container, the parent
\* of its parent holds one whose state differs from the root state, and T has
\* not accessed the container yet.
C15_Witness ==
  \E T \in 1..ntx, s \in app.stores :
    /\ ~HasFork(forks, T, s)
    /\ parent[T] # NoTx
    /\ ~HasFork(forks, parent[T], s)
    /\ parent[parent[T]] # NoTx
    /\ HasFork(forks, parent[parent[T]], s)
    /\ ForkOf(forks, parent[parent[T]], s).state # root[s].state
    /\ get(World, T, s) = ForkOf(forks, parent[parent[T]], s).state

\* ------------------------------------------------------------------ C16
\* Listener function l is subscribed to store at the root with inherit = true.
InheritableAtRoot(l, store) ==
  \E i \in 1..Len(root[store].listeners) :
    root[store].listeners[i] = [listener |-> l, inherit |-> TRUE]

\* No scope from tx up to the root holds a fork of store yet: the forks a
\* call under tx resolves through are all created by that call.
RECURSIVE Unforked(_, _)
Unforked(tx, store) ==
  tx = NoTx \/ (~HasFork(forks, tx, store) /\ Unforked(parent[tx], store))

\* C16 as stated: a listener subscribed at the root with inherit = true is
\* invoked by every effective set made on the store with a transaction
\* ambient, with the new and the old state of that transaction's fork.
C16_AsStated ==
  \A s \in app.stores, l \in Listeners :
    InheritableAtRoot(l, s) =>
      \A T \in 1..ntx, v \in Values :
        LET r == set(World, T, s, v, {})
        IN ~Equal(equalFn[s], Visible(World, T, s), v) =>
             \E i \in 1..Len(r.fired) :
               /\ r.fired[i].listener = l
               /\ r.fired[i].new = v
               /\ r.fired[i].old = Visible(World, T, s)

\* C16, amended: a fork receives, when it is created, the listeners
\* registered with inherit = true in the scope it is seeded from, and an
\* effective set made with a transaction ambient calls the listeners of the
\* Internals it resolves to, in order and up to the first that throws, with
\* the new and the old state of that Internals.  So a listener subscribed at
\* the root with inherit = true is invoked by every effective set made in a
\* transaction, at every nesting depth, whose fork and whose ancestors' forks
\* are created after the subscription, unless a listener called before it
\* throws; a fork that exists when the listener is subscribed does not
\* receive it.
C16_ForkListeners ==
  \A s \in app.stores, T \in 1..ntx, v \in Values, bad \in Throwers :
    LET r == set(World, T, s, v, bad)
        old == Visible(World, T, s)
        heard == VisibleListeners(World, T, s)
    IN /\ r.fired =
            IF Equal(equalFn[s], old, v) THEN <<>>
            ELSE Notify(heard, Home(T, s), s, v, old, bad)
       /\ \A l \in Listeners :
            (InheritableAtRoot(l, s) /\ Unforked(T, s)) =>
              /\ l \in ListenersOf(heard)
              /\ (~Equal(equalFn[s], old, v) /\ bad = {}) =>
                   \E i \in 1..Len(r.fired) :
                     r.fired[i] = [at |-> Home(T, s), store |-> s,
                                   listener |-> l, new |-> v, old |-> old]
       /\ \A l \in Listeners :
            (~nofork[s] /\ HasFork(forks, T, s)
               /\ l \notin ListenersOf(ForkOf(forks, T, s).listeners)) =>
              /\ l \notin Invoked(r.fired)
              /\ \A inherit \in BOOLEAN :
                   ForkOf(subscribe(World, NoTx, s, l, inherit).forks, T, s)
                     = ForkOf(forks, T, s)

\* C16, amended: in every reachable state, an effective set made with a
\* transaction ambient calls the listeners of the fork it resolves to, among
\* them every listener subscribed at the root with inherit = true before the
\* forks on the way to the root were created, and no listener subscribed at
\* the root after the fork was created (C16_ForkListeners).
C16_Inherited == []C16_ForkListeners

\* A listener is subscribed at the root with inherit = true, a transaction
\* and its child both hold forks with a copy of it, and an effective set in
\* the child calls it with the states of the child's fork.
C16_Witness ==
  \E s \in app.stores, l \in Listeners, T \in 1..ntx :
    /\ InheritableAtRoot(l, s)
    /\ parent[T] # NoTx
    /\ HasFork(forks, T, s) /\ HasFork(forks, parent[T], s)
    /\ l \in ListenersOf(ForkOf(forks, T, s).listeners)
    /\ l \in ListenersOf(ForkOf(forks, parent[T], s).listeners)
    /\ ForkOf(forks, T, s).state = 1
    /\ ForkOf(forks, parent[T], s).state = 0
    /\ set(World, T, s, MaxVal, {}).fired =
         <<[at |-> T, store |-> s, listener |-> l, new |-> MaxVal, old |-> 1]>>

\* ------------------------------------------------------------------ C17
\* Listener function l is registered for store nowhere in world w.
Unregistered(w, l, store) ==
  /\ l \notin ListenersOf(w.root[store].listeners)
  /\ \A t \in 1..ntx :
       HasFork(w.forks, t, store) =>
         l \notin ListenersOf(ForkOf(w.forks, t, store).listeners)

\* Listener function l is registered for store in the fork of tx, with
\* inherit = false, and in no other Internals of store.
OnlyInFork(w, l, tx, store) ==
  /\ HasFork(w.forks, tx, store)
  /\ \E i \in 1..Len(ForkOf(w.forks, tx, store).listeners) :
       ForkOf(w.forks, tx, store).listeners[i]
         = [listener |-> l, inherit |-> FALSE]
  /\ l \notin ListenersOf(w.root[store].listeners)
  /\ \A t \in (1..ntx) \ {tx} :
       HasFork(w.forks, t, store) =>
         l \notin ListenersOf(ForkOf(w.forks, t, store).listeners)

\* C17 as stated: a listener subscribed with inherit = false while T is
\* ambient is not invoked by a set executed at the root or with another
\* transaction ambient, and a listener subscribed with inherit = false at
\* the root is not invoked by a set executed with a transaction ambient.
C17_AsStated ==
  \A s \in app.stores, l \in Listeners :
    Unregistered(World, l, s) =>
      /\ \A T \in 1..ntx :
           LET w1 == subscribe(World, T, s, l, FALSE)
           IN \A amb \in (0..ntx) \ {T}, v \in Values :
                l \notin Invoked(set(w1, amb, s, v, {}).fired)
      /\ LET w1 == subscribe(World, NoTx, s, l, FALSE)
         IN \A amb \in 1..ntx, v \in Values :
              l \notin Invoked(set(w1, amb, s, v, {}).fired)

\* C17, amended: for a container without the nofork flag, subscribing a
\* listener with inherit = false while T is ambient registers it in T's fork
\* and nowhere else.  A listener registered there only is invoked by every
\* effective set executed while T is ambient (unless a listener called
\* before it throws) and by no other set: not at the root, not with any
\* other transaction ambient, children of T included, and not by the commit
\* of T or of any transaction that is not a child of T.  A listener
\* subscribed with inherit = false at the root only is invoked by no set
\* executed with a transaction ambient and by no commit of a transaction
\* that has a parent.
C17_Registries ==
  \A s \in app.stores, l \in Listeners :
    ~nofork[s] =>
      /\ \A T \in 1..ntx :
           Unregistered(World, l, s) =>
             OnlyInFork(subscribe(World, T, s, l, FALSE), l, T, s)
      /\ \A T \in 1..ntx :
           OnlyInFork(World, l, T, s) =>
             /\ \A amb \in (0..ntx) \ {T}, v \in Values, bad \in Throwers :
                  LET r == set(World, amb, s, v, bad)
                  IN /\ l \notin Invoked(r.fired)
                     /\ OnlyInFork(r.w, l, T, s)
             /\ \A u \in 1..ntx, bad \in Throwers :
                  parent[u] # T => l \notin Invoked(commit(World, u, bad).fired)
             /\ \A v \in Values :
                  ~Equal(equalFn[s], ForkOf(forks, T, s).state, v) =>
                    l \in Invoked(set(World, T, s, v, {}).fired)
      /\ RootOnly(l, s) =>
           /\ \A amb \in 1..ntx, v \in Values, bad \in Throwers :
                LET r == set(World, amb, s, v, bad)
                IN /\ l \notin Invoked(r.fired)
                   /\ \A t \in 1..ntx :
                        HasFork(r.w.forks, t, s) =>
                          l \notin ListenersOf(ForkOf(r.w.forks, t, s).listeners)
           /\ \A u \in 1..ntx, bad \in Throwers :
                parent[u] # NoTx =>
                  l \notin Invoked(commit(World, u, bad).fired)

\* C17, amended: in every reachable state, for containers without the nofork
\* flag, a listener registered with inherit = false in the fork of T only is
\* called by the sets executed with T ambient and no others, and a listener
\* registered with inherit = false at the root only is called by no set
\* executed with a transaction ambient (C17_Registries).
C17_ScopeLocal == []C17_Registries

\* A listener is registered with inherit = false in the fork of a
\* transaction only; the transaction has a child that holds a fork of the
\* container too, whose state differs from the parent's and from the root's.
C17_Witness ==
  \E s \in app.stores, l \in Listeners, T \in 1..ntx, U \in 1..ntx :
    /\ ~nofork[s]
    /\ OnlyInFork(World, l, T, s)
    /\ parent[U] = T
    /\ HasFork(forks, U, s)
    /\ ForkOf(forks, U, s).state # ForkOf(forks, T, s).state
    /\ ForkOf(forks, T, s).state # root[s].state
    /\ l \in Invoked(set(World, T, s, root[s].state, {}).fired)

\* ------------------------------------------------------------------ C18
\* C18: set compares the state of the Internals it resolves to with the
\* resolved next state before it writes.  When the equality function reports
\* them equal, nothing but the forks the resolution creates is changed: the
\* state every scope sees stays as it was and no listener is called, whether
\* some listener would throw or not.  In particular C.set(C.get()) calls no
\* listener, at the root and with any transaction ambient, under an equality
\* function that is reflexive.
C18_EqualSet ==
  \A amb \in 0..ntx, s \in app.stores, bad \in Throwers :
    /\ \A v \in Values :
         LET r == set(World, amb, s, v, bad)
         IN Equal(equalFn[s], Visible(World, amb, s), v) =>
              /\ r.fired = <<>>
              /\ ~r.threw
              /\ r.w = getInternals(World, amb, s)
              /\ r.w.root = root
              /\ \A u \in 0..ntx :
                   /\ Visible(r.w, u, s) = Visible(World, u, s)
                   /\ VisibleListeners(r.w, u, s)
                        = VisibleListeners(World, u, s)
    /\ (\A x \in Values : Equal(equalFn[s], x, x)) =>
         LET r == set(World, amb, s, get(World, amb, s), bad)
         IN /\ r.fired = <<>>
            /\ \A u \in 0..ntx : Visible(r.w, u, s) = Visible(World, u, s)

\* C18: in every reachable state, at the root and with any transaction
\* ambient, a set whose next state the equality function reports equal to
\* the visible state writes nothing and calls no listener, C.set(C.get())
\* included (C18_EqualSet).
C18_Gated == []C18_EqualSet

\* A transaction holds a fork of a container created with the custom
\* equality function, a listener is registered in the fork, and a set with
\* the transaction ambient to a state that is another value, equal under the
\* function, calls nobody, while a set to the root state calls the listener.
C18_Witness ==
  \E T \in 1..ntx, s \in app.stores :
    /\ equalFn[s] = "count"
    /\ HasFork(forks, T, s)
    /\ ForkOf(forks, T, s).listeners # <<>>
    /\ ForkOf(forks, T, s).state = 1
    /\ root[s].state = MaxVal
    /\ set(World, T, s, 0, {}).fired = <<>>
    /\ set(World, T, s, MaxVal, {}).fired # <<>>

\* ------------------------------------------------------------------ C19
\* The listener calls a notification of store made in the Internals of the
\* root.
RootCalls(calls, store) ==
  SelectSeq(calls, LAMBDA c : c.store = store /\ c.at = NoTx)

C19_RootNotifications ==
  /\ \A s \in app.stores, v \in Values, bad \in Throwers :
       LET r == set(World, NoTx, s, v, bad)
           ls == root[s].listeners
           n == IF FirstBad(ls, bad) = 0 THEN Len(ls) ELSE FirstBad(ls, bad)
       IN IF Equal(equalFn[s], root[s].state, v)
          THEN r.fired = <<>> /\ r.w = World
          ELSE /\ r.w.root[s] = [state |-> v, listeners |-> ls]
               /\ Len(r.fired) = n
               /\ r.threw <=> (\E l \in ListenersOf(ls) : l \in bad)
               /\ \A i \in 1..n :
                    r.fired[i] = [at |-> NoTx, store |-> s,
                                  listener |-> ls[i].listener,
                                  new |-> v, old |-> root[s].state]
  /\ \A amb \in 0..ntx, s \in app.stores, v \in Values :
       LET r == set(World, amb, s, v, {})
       IN RootCalls(r.fired, s) =
            IF r.w.root[s].state = root[s].state THEN <<>>
            ELSE [i \in 1..Len(root[s].listeners) |->
                    [at |-> NoTx, store |-> s,
                     listener |-> root[s].listeners[i].listener,
                     new |-> r.w.root[s].state, old |-> root[s].state]]
  /\ \A T \in 1..ntx, s \in Stores :
       LET c == commit(World, T, {})
       IN RootCalls(c.fired, s) =
            IF c.w.root[s].state = root[s].state THEN <<>>
            ELSE [i \in 1..Len(root[s].listeners) |->
                    [at |-> NoTx, store |-> s,
                     listener |-> root[s].listeners[i].listener,
                     new |-> c.w.root[s].state, old |-> root[s].state]]

C20_Idempotent ==
  \A u \in unsubs :
    u.called => unsubscribe(World, u.at, u.store, u.listener) = World

\* ------------------------------------------------------------------ C21
\* A call of set whose updater throws, made with any transaction or none
\* ambient: it raises, calls no listener, leaves the root Internals and every
\* existing fork as they are, and the state every scope sees for every
\* container is what it was (the fork the call may create on the way holds
\* the state its scope saw already).
C21_Thrown ==
  \A amb \in 0..ntx, s \in app.stores :
    LET r == setUpdaterThrows(World, amb, s)
    IN /\ r.threw
       /\ r.fired = <<>>
       /\ r.w.root = root
       /\ \A t \in 1..ntx, s2 \in Stores :
            /\ Visible(r.w, t, s2) = Visible(World, t, s2)
            /\ HasFork(forks, t, s2) =>
                 /\ HasFork(r.w.forks, t, s2)
                 /\ ForkOf(r.w.forks, t, s2) = ForkOf(forks, t, s2)

\* C21: updater failure.  In every reachable state, if the updater function
\* passed to set throws, the exception propagates to the caller of set, the
\* visible state, root or fork, keeps its previous value, and no listener is
\* invoked (C21_Thrown).
C21_UpdaterFailure == []C21_Thrown

\* A transaction() call is running, its transaction holds a fork whose state
\* differs from the root state and which has a listener, and the root has a
\* listener too: a set with a throwing updater is made there.
C21_Witness ==
  \E s \in app.stores :
    /\ stack # <<>>
    /\ scope # NoTx
    /\ HasFork(forks, scope, s)
    /\ ForkOf(forks, scope, s).state # root[s].state
    /\ ForkOf(forks, scope, s).listeners # <<>>
    /\ root[s].listeners # <<>>
    /\ ENABLED SetThrows(scope, s, 1)

\* ------------------------------------------------------------------ C22
\* Application code that runs, with amb ambient, one plain set per entry of
\* a list of (store, state) pairs, in the order of the list: store.set(state)
\* (create.ts set), the next one only when the one before returned.
RECURSIVE PlainSets(_, _, _, _, _)
PlainSets(w, amb, entries, bad, calls) ==
  IF entries = <<>> THEN [w |-> w, fired |-> calls, threw |-> FALSE]
  ELSE LET r == set(w, amb, Head(entries).store, Head(entries).state, bad)
       IN IF r.threw
          THEN [w |-> r.w, fired |-> calls \o r.fired, threw |-> TRUE]
          ELSE PlainSets(r.w, amb, Tail(entries), bad, calls \o r.fired)

\* C22 as stated: T.commit() produces the same world and the same listener
\* calls as one plain set(fork state), executed with T's parent ambient, for
\* each container recorded in T's fork map.
C22_AsStated ==
  \A T \in 1..ntx, bad \in Throwers :
    LET c == commit(World, T, bad)
        p == PlainSets(World, parent[T], forks[T], bad, <<>>)
    IN c.w = p.w /\ c.fired = p.fired

\* T.commit() against the plain sets, made with T's parent ambient, of the
\* fork states of the containers in T's fork map that do not carry the
\* nocommit flag, in the order of the map: same world, same listener calls
\* in the same order, same outcome (returned or raised).
C22_SameAsSets ==
  \A T \in 1..ntx, bad \in Throwers :
    LET c == commit(World, T, bad)
        written == SelectSeq(forks[T], LAMBDA e : ~nocommit[e.store])
        p == PlainSets(World, parent[T], written, bad, <<>>)
    IN /\ c = p
       /\ \A s \in Stores :
            (HasFork(forks, T, s) /\ nocommit[s]) =>
              /\ CallsFor(c.fired, s) = <<>>
              /\ Visible(c.w, parent[T], s) = Visible(World, parent[T], s)

\* C22, amended: commit is equivalent to plain sets at the parent scope.  In
\* every reachable state T.commit() produces the same parent-scope states
\* and the same listener invocations, synchronously inside the commit() call
\* and per container in subscription order, as executing with T's parent
\* ambient one plain set(fork state) for each container recorded in T's fork
\* map that does not carry the nocommit flag, in the order of the map and up
\* to the first set that raises; for a container that carries the nocommit
\* flag commit() makes no set.
C22_CommitIsSets == []C22_SameAsSets

\* T holds forks of two containers whose states differ from what the parent
\* scope holds, a listener is subscribed in the parent scope, and T's commit
\* calls it and changes both parent-scope states.
C22_Witness ==
  \E T \in 1..ntx :
    /\ Len(forks[T]) = 2
    /\ \A i \in 1..2 :
         /\ ~nocommit[forks[T][i].store]
         /\ forks[T][i].state # Visible(World, parent[T], forks[T][i].store)
    /\ LET c == commit(World, T, {})
       IN /\ c.fired # <<>>
          /\ \A i \in 1..2 :
               Visible(c.w, parent[T], forks[T][i].store) = forks[T][i].state

\* ------------------------------------------------------------------ C23
\* A store wrapped by effect() (effect.ts) with the effect of the persist
\* middleware (persist.ts), which returns at once while the store hydrates
\* or getTransaction() is not null and else hands the state to
\* storage.setItem.  The wrapped set reads the state, calls the set of
\* create.ts and, when that returns and the state it reads again is another
\* one, runs the effect.  seen is what getTransaction() returned to the
\* effect, stored the states handed to storage.setItem (no hydration runs).
persistSet(w, amb, store, nextState, bad) ==
  LET previousState == get(w, amb, store)
      r == set(w, amb, store, nextState, bad)
      state == get(r.w, amb, store)
      ran == ~r.threw /\ state # previousState
  IN [w |-> r.w, fired |-> r.fired, threw |-> r.threw,
      seen |-> IF ran THEN <<amb>> ELSE <<>>,
      stored |-> IF ran /\ amb = NoTx THEN <<state>> ELSE <<>>]

\* tx.commit() when the stores are wrapped that way: commit calls the set
\* property of each store, with the ambient transaction scope.act installed.
RECURSIVE commitPersist(_, _, _, _, _)
commitPersist(w, tx, i, bad, done) ==
  IF i > Len(w.forks[tx]) THEN [done EXCEPT !.w = w]
  ELSE IF nocommit[w.forks[tx][i].store]
       THEN commitPersist(w, tx, i + 1, bad, done)
       ELSE LET r == persistSet(w, Target(tx), w.forks[tx][i].store,
                                w.forks[tx][i].state, bad)
                next == [w |-> r.w, fired |-> done.fired \o r.fired,
                         threw |-> r.threw, seen |-> done.seen \o r.seen,
                         stored |-> done.stored \o r.stored]
            IN IF r.threw THEN next
               ELSE commitPersist(r.w, tx, i + 1, bad, next)

NothingDone(w) ==
  [w |-> w, fired |-> <<>>, threw |-> FALSE, seen |-> <<>>, stored |-> <<>>]

\* Whatever is ambient when T.commit() is called, T itself included, the
\* sets of the commit run with T's parent ambient (null for a root-level T):
\* the listeners called are those of the Internals that parent resolves to,
\* and an effect wrapped around set sees getTransaction() = T's parent.  A
\* set made with T ambient calls the listeners of the Internals T resolves
\* to, and its effect sees getTransaction() = T.  The persist effect stores
\* nothing for a set made with a transaction ambient or for the commit of a
\* transaction that has a parent, and for a root-level commit that returns
\* it stores once the fork state of each container the commit is to write
\* whose root state the equality function reports not equal to it.
C23_CommitSees ==
  /\ \A T \in 1..ntx, bad \in Throwers :
       LET c == commitPersist(World, T, 1, bad, NothingDone(World))
       IN /\ c.w = commit(World, T, bad).w
          /\ c.fired = commit(World, T, bad).fired
          /\ \A i \in 1..Len(c.fired) :
               c.fired[i].at = Home(parent[T], c.fired[i].store)
          /\ \A i \in 1..Len(c.seen) : c.seen[i] = parent[T]
          /\ parent[T] # NoTx => c.stored = <<>>
          /\ (parent[T] = NoTx /\ ~c.threw) =>
               LET changed == {s \in ToCommit(T) :
                                 ~Equal(equalFn[s], root[s].state,
                                        ForkOf(forks, T, s).state)}
               IN /\ Len(c.stored) = Cardinality(changed)
                  /\ \A s \in changed :
                       \E i \in 1..Len(c.stored) :
                         c.stored[i] = ForkOf(forks, T, s).state
  /\ \A T \in 1..ntx, s \in app.stores, v \in Values, bad \in Throwers :
       LET r == persistSet(World, T, s, v, bad)
       IN /\ r.stored = <<>>
          /\ \A i \in 1..Len(r.seen) : r.seen[i] = T
          /\ \A i \in 1..Len(r.fired) : r.fired[i].at = Home(T, s)

\* C23: ambient scope during commit.  While T.commit() runs, the ambient
\* transaction is T's parent (null for a root-level transaction), also when
\* commit() is called from inside T.act, and after commit returns the
\* ambient transaction and the running act calls are what they were before
\* the call.  Hence code triggered by a set inside T.act observes
\* getTransaction() = T, while code triggered by a root-level commit observes
\* getTransaction() = null: a persistence side effect gated on it runs zero
\* times during the transaction and, at a commit that changes the root state,
\* once.
C23_CommitAmbient ==
  /\ []C23_CommitSees
  /\ [][\/ scope' = scope /\ stack' = stack
        \/ ~ \E tx \in 1..ntx, bad \in Throwers : Commit(tx, bad, 0)]_vars

\* T.commit() is called from inside T.act: T is ambient and root-level, its
\* fork holds a state other than the root state, and a listener is
\* subscribed at the root; the commit calls the listener at the root and the
\* persist effect stores once.
C23_Witness ==
  \E T \in 1..ntx, s \in app.stores :
    /\ scope = T
    /\ stack # <<>>
    /\ parent[T] = NoTx
    /\ ~nofork[s] /\ ~nocommit[s]
    /\ HasFork(forks, T, s)
    /\ ForkOf(forks, T, s).state = MaxVal
    /\ root[s].state = 0
    /\ root[s].listeners # <<>>
    /\ LET c == commitPersist(World, T, 1, {}, NothingDone(World))
       IN /\ c.seen = <<NoTx>>
          /\ c.stored = <<MaxVal>>
          /\ c.fired # <<>>
    /\ ENABLED Commit(T, {}, 0)

\* ------------------------------------------------------------------ C24
\* createTransaction() takes the ambient transaction as parent, null when
\* there is none, and createTransaction(p) takes p, whatever is ambient.  For
\* a transaction T whose parent is null, whatever transaction is ambient
\* around the T.act or T.commit call and whatever forks the others hold: the
\* first access to a container seeds T's fork with the root state and the
\* inheritable root listeners and touches no other fork map, and T's commit
\* sets the root, calls root listeners only, and leaves every fork map as it
\* is.
C24_RootLevel ==
  /\ \A amb \in 0..ntx :
       /\ createTransaction(Undefined, amb) = amb
       /\ \A p \in 0..ntx : createTransaction(p, amb) = p
  /\ \A T \in 1..ntx :
       parent[T] = NoTx =>
         /\ \A s \in app.stores :
              (~HasFork(forks, T, s) /\ ~nofork[s]) =>
                LET w1 == getInternals(World, T, s)
                IN /\ ForkOf(w1.forks, T, s).state = root[s].state
                   /\ ForkOf(w1.forks, T, s).listeners
                        = Inherited(root[s].listeners)
                   /\ \A u \in TxIds \ {T} : w1.forks[u] = forks[u]
                   /\ w1.root = root
         /\ \A bad \in Throwers :
              LET c == commit(World, T, bad)
              IN /\ c.w.forks = forks
                 /\ \A i \in 1..Len(c.fired) : c.fired[i].at = NoTx
                 /\ ~c.threw =>
                      \A s \in ToCommit(T) :
                        c.w.root[s].state =
                          IF Equal(equalFn[s], root[s].state,
                                   ForkOf(forks, T, s).state)
                          THEN root[s].state
                          ELSE ForkOf(forks, T, s).state

\* C24: parent selection.  createTransaction() called without argument
\* takes as parent the transaction that is ambient at the instant of the call
\* (null when none), and createTransaction(p) uses p whatever is ambient; the
\* parent of a transaction never changes afterwards.  A transaction created
\* with parent null while another transaction T is ambient seeds its forks
\* from the root, not from T's forks, and its commit writes to the root
\* without passing through T.
C24_ParentSelection ==
  /\ []C24_RootLevel
  /\ [][/\ \A t \in 1..ntx : parent'[t] = parent[t]
        /\ ntx' # ntx =>
             /\ ntx' = ntx + 1
             /\ \/ parent'[ntx'] = scope
                \/ \E p \in 0..ntx : parent'[ntx'] = p /\ CreateTransaction(p)
       ]_vars

\* The function of transaction() runs with its transaction U ambient, U
\* holds a fork whose state differs from the root state, and a transaction T
\* created since then with createTransaction(null) holds a fork seeded from
\* the root, which it has set to a third state: T's commit writes that state
\* to the root and leaves U's fork alone.
C24_Witness ==
  \E U \in 1..ntx, T \in 1..ntx, s \in app.stores :
    /\ stack = <<Frame(U, NoTx)>>
    /\ scope = U
    /\ T > U
    /\ parent[T] = NoTx
    /\ HasFork(forks, U, s) /\ HasFork(forks, T, s)
    /\ ForkOf(forks, U, s).state = 1
    /\ ForkOf(forks, T, s).state = MaxVal
    /\ root[s].state = 0
    /\ commit(World, T, {}).w.root[s].state = MaxVal
    /\ commit(World, T, {}).w.forks[U] = forks[U]

\* ------------------------------------------------------------------ C25
\* Every access to a container (get, set, subscribe) starts by resolving its
\* Internals under the ambient transaction; amb is T or a transaction below
\* T when T is amb or an ancestor of amb.
WithinTx(T, amb) == amb = T \/ (amb # NoTx /\ Ancestor(T, amb))

\* C25 as stated: a transaction T receives a fork of container S only
\* through an access to S made while T is ambient, and while T holds no fork
\* of S its commit changes the state of S at no scope and calls no listener
\* of S.
C25_AsStated ==
  \A T \in 1..ntx, s \in app.stores :
    ~HasFork(forks, T, s) =>
      /\ \A amb \in (0..ntx) \ {T}, s2 \in app.stores :
           ~HasFork(getInternals(World, amb, s2).forks, T, s)
      /\ \A bad \in Throwers :
           LET c == commit(World, T, bad)
           IN /\ CallsFor(c.fired, s) = <<>>
              /\ \A u \in 0..ntx : Visible(c.w, u, s) = Visible(World, u, s)

\* While T holds no fork of S: an access to another container, or an access
\* to S made while neither T nor a descendant of T is ambient, and any commit,
\* leave T without a fork of S; an access to S made while a descendant of T
\* is ambient gives T a fork of S, unless S carries the nofork flag; and T's
\* commit changes neither the Internals of S at the root or in any fork nor
\* the state of S any scope sees, and calls no listener of S.
C25_NoFork ==
  \A T \in 1..ntx, s \in app.stores :
    ~HasFork(forks, T, s) =>
      /\ \A amb \in 0..ntx, s2 \in app.stores :
           LET w1 == getInternals(World, amb, s2)
           IN HasFork(w1.forks, T, s)
                <=> (s2 = s /\ WithinTx(T, amb) /\ ~nofork[s])
      /\ \A u \in 1..ntx, bad \in Throwers :
           ~HasFork(commit(World, u, bad).w.forks, T, s)
      /\ \A bad \in Throwers :
           LET c == commit(World, T, bad)
           IN /\ CallsFor(c.fired, s) = <<>>
              /\ c.w.root[s] = root[s]
              /\ \A u \in 1..ntx :
                   /\ HasFork(c.w.forks, u, s) <=> HasFork(forks, u, s)
                   /\ HasFork(forks, u, s) =>
                        ForkOf(c.w.forks, u, s) = ForkOf(forks, u, s)
                   /\ Visible(c.w, u, s) = Visible(World, u, s)

\* C25, amended: untouched containers are left alone.  A transaction T holds
\* a fork of container S only once S has been accessed (get, set or
\* subscribe) while T or a descendant of T was ambient: an access made inside
\* an act call of a child of T forks S in T as well, also when no act call of
\* T is running.  While T holds no fork of S, its commit neither changes S's
\* state at any scope nor invokes any listener of S.
C25_Untouched == []C25_NoFork

\* T holds a fork of one container, whose state it changed, and none of a
\* second one, whose root state was changed and which has a listener at the
\* root: T's commit writes the first and leaves the second alone.
C25_Witness ==
  \E T \in 1..ntx, s \in app.stores, s2 \in app.stores :
    /\ s2 # s
    /\ ~HasFork(forks, T, s)
    /\ HasFork(forks, T, s2)
    /\ root[s].state = 1
    /\ root[s].listeners # <<>>
    /\ ForkOf(forks, T, s2).state = MaxVal
    /\ root[s2].state = 0
    /\ commit(World, T, {}).w.root[s2].state = MaxVal
    /\ commit(World, T, {}).w.root[s] = root[s]

\* ------------------------------------------------------------------ C29
\* C29 as stated: for every container the transaction forked, a commit that
\* no listener interrupts leaves the fork's state in the parent scope.
C29_AsStated ==
  \A T \in 1..ntx, s \in app.stores :
    HasFork(forks, T, s) =>
      Visible(commit(World, T, {}).w, parent[T], s) = ForkOf(forks, T, s).state

\* What a set of state v leaves in a scope that holds state old.
Written(store, old, v) == IF Equal(equalFn[store], old, v) THEN old ELSE v

\* A fork records a state and listeners, not what it was seeded from, and
\* commit compares nothing with the seed.  (1) A commit of T that no listener
\* interrupts sets the parent scope of every forked container without the
\* nocommit flag to the fork's state, whatever the parent scope holds.
\* (2) T reads a container through get() only, then the parent scope is set
\* to v, then T commits: the parent scope holds the state the get() returned
\* again, and its listeners are called with (that state, v).  (3) Two
\* transactions with the same parent commit one after the other: the parent
\* scope holds the state of the fork of the second.
C29_LastWriter ==
  \A T \in 1..ntx, s \in app.stores :
    (~nocommit[s] /\ ~nofork[s]) =>
      /\ HasFork(forks, T, s) =>
           Visible(commit(World, T, {}).w, parent[T], s)
             = Written(s, Visible(World, parent[T], s),
                       ForkOf(forks, T, s).state)
      /\ ~HasFork(forks, T, s) =>
           \A v \in Values :
             LET read == get(World, T, s)
                 w1 == getInternals(World, T, s)
                 update == set(w1, parent[T], s, v, {})
                 c == commit(update.w, T, {})
             IN /\ Visible(update.w, parent[T], s) = Written(s, read, v)
                /\ Visible(update.w, T, s) = read
                /\ Visible(c.w, parent[T], s) = read
                /\ ~Equal(equalFn[s], read, v) =>
                     CallsFor(c.fired, s) =
                       Notify(ParentInternals(update.w, T, s).listeners,
                              Home(parent[T], s), s, read, v, {})
      /\ \A U \in 1..ntx :
           (U # T /\ parent[U] = parent[T]
              /\ HasFork(forks, T, s) /\ HasFork(forks, U, s)) =>
             LET first == commit(World, T, {})
                 second == commit(first.w, U, {})
             IN Visible(second.w, parent[T], s)
                  = Written(s, Visible(first.w, parent[T], s),
                            ForkOf(forks, U, s).state)

\* C29, amended: commit performs no conflict detection.  In every reachable
\* state, for every container the transaction forked that does not carry the
\* nocommit flag, including containers it only read through get(), commit()
\* sets the parent scope to the fork's state even when the parent-scope value
\* was changed after the fork was seeded: the parent scope keeps its value
\* only when the container's equality function reports it equal to the
\* fork's state.  A root update made between a transaction's first access to
\* a container and its commit is therefore replaced by the transaction's
\* older or own value, and the later of two sibling commits wins.
C29_NoConflictDetection == []C29_LastWriter

\* T holds a fork it was seeded with from the root and never wrote to (its
\* state is the initial state), the root was set to another state since and
\* has a listener: T's commit puts the older state back and calls the
\* listener.
C29_Witness ==
  \E T \in 1..ntx, s \in app.stores :
    /\ parent[T] = NoTx
    /\ ~nocommit[s] /\ ~nofork[s]
    /\ equalFn[s] = "is"
    /\ HasFork(forks, T, s)
    /\ ForkOf(forks, T, s).state = 0
    /\ root[s].state = MaxVal
    /\ root[s].listeners # <<>>
    /\ LET c == commit(World, T, {})
       IN /\ c.w.root[s].state = 0
          /\ c.fired # <<>>
          /\ c.fired[1].new = 0 /\ c.fired[1].old = MaxVal

\* ------------------------------------------------------------------ C30
\* C30 as stated: after T's first access to container A, a change of A made
\* by root-level code does not change what get() returns for A inside T; and
\* a container B that T has not accessed yet is read by T, after root-level
\* code changed it, with the value it has at the root after the change.
C30_AsStated ==
  \A T \in 1..ntx, A \in app.stores, v \in Values :
    /\ LET before == get(World, T, A)
           w1 == getInternals(World, T, A)
           change == set(w1, NoTx, A, v, {})
       IN get(change.w, T, A) = before
    /\ ~HasFork(forks, T, A) =>
         LET change == set(World, NoTx, A, v, {})
         IN get(change.w, T, A) = change.w.root[A].state

\* For a container without the nofork flag: once T holds a fork of it,
\* get() inside T returns the state of the fork whatever root-level code sets
\* afterwards; while T holds none, what get() inside T will return follows
\* the state T's parent scope sees, which is the root state after a
\* root-level change when no ancestor of T holds a fork either.  So when
\* root-level code changes containers A and B after T's first access to A
\* and before its first access to B, T reads A as it was before the change
\* and B as its parent scope sees it after the change.  (A container with
\* the nofork flag is always read at the root.)
C30_FirstAccess ==
  \A T \in 1..ntx, A \in app.stores, v \in Values :
    LET change == set(World, NoTx, A, v, {})
    IN /\ nofork[A] => get(change.w, T, A) = change.w.root[A].state
       /\ (~nofork[A] /\ HasFork(forks, T, A)) =>
            get(change.w, T, A) = ForkOf(forks, T, A).state
       /\ (~nofork[A] /\ ~HasFork(forks, T, A)) =>
            /\ get(change.w, T, A) = Visible(change.w, parent[T], A)
            /\ Unforked(T, A) =>
                 get(change.w, T, A) = change.w.root[A].state
            /\ \A B \in app.stores \ {A}, vb \in Values :
                 (~nofork[B] /\ ~HasFork(forks, T, B)) =>
                   LET before == get(World, T, A)
                       w1 == getInternals(World, T, A)
                       changeA == set(w1, NoTx, A, v, {})
                       changeB == set(changeA.w, NoTx, B, vb, {})
                   IN /\ get(changeB.w, T, A) = before
                      /\ get(changeB.w, T, B)
                           = Visible(changeB.w, parent[T], B)
                      /\ Unforked(T, B) =>
                           get(changeB.w, T, B) = changeB.w.root[B].state

\* C30, amended: snapshots are taken lazily per container, at first access,
\* not at transaction creation or at the first act: creating a transaction
\* and entering act create no fork.  If root-level code changes containers A
\* and B, neither carrying the nofork flag, between T's first access to A and
\* T's first access to B, get() inside T returns A's value from before the
\* change and B's value as T's parent scope sees it after the change, which
\* is the root value from after the change when no ancestor of T holds a
\* fork of B: the snapshot is not consistent across containers.
C30_LazySnapshots ==
  /\ []C30_FirstAccess
  /\ [][(ntx' # ntx \/ Len(stack') > Len(stack)) =>
          (forks' = forks /\ root' = root)]_vars

\* T was created and has accessed container A, only reading it, before
\* root-level code set A and B; T has not accessed B: get() inside T returns
\* the old state of A and the new state of B.
C30_Witness ==
  \E T \in 1..ntx, A \in app.stores, B \in app.stores :
    /\ A # B
    /\ ~nofork[A] /\ ~nofork[B]
    /\ parent[T] = NoTx
    /\ HasFork(forks, T, A)
    /\ ~HasFork(forks, T, B)
    /\ ForkOf(forks, T, A).state = 0
    /\ root[A].state = 1
    /\ root[B].state = 1
    /\ get(World, T, A) = 0
    /\ get(World, T, B) = 1

\* ------------------------------------------------------------------ C26
\* The store store.history, configured with commit: false, is forked at its
\* first access inside a transaction like the wrapped store.  Whatever the
\* fork of T holds, T's commit keeps it and does not set the parent scope to
\* it: after the commit the parent-scope copy is what it was, or, when the
\* commit changed the wrapped store there and the tracking listener of the
\* parent scope recorded the change, what it was with the previous state of
\* the wrapped store put in front of past, cut to the limit, and an empty
\* future.
C26_Skipped ==
  \A T \in 1..ntx :
    LET c == commitTracked(World, T, 1)
        before == Visible(World, parent[T], HistoryOf)
        old == Visible(World, parent[T], Wrapped)
    IN /\ HasFork(getInternals(World, T, HistoryOf).forks, T, HistoryOf)
       /\ HasFork(getInternals(World, T, Wrapped).forks, T, Wrapped)
       /\ c.forks[T] = forks[T]
       /\ Visible(c, parent[T], HistoryOf) =
            IF /\ HasFork(forks, T, Wrapped)
               /\ ~Equal(equalFn[Wrapped], old, ForkOf(forks, T, Wrapped).state)
               /\ Tracker \in
                    ListenersOf(VisibleListeners(World, parent[T], Wrapped))
               /\ before.tracking
               /\ diff(ForkOf(forks, T, Wrapped).state, old) # Unchanged
            THEN [before EXCEPT
                    !.past = Slice(<<diff(ForkOf(forks, T, Wrapped).state,
                                          old)>> \o @),
                    !.future = <<>>]
            ELSE before

\* C26: no-commit stores.  A store configured with commit: false (the
\* nocommit flag, used by the history store) is forked inside a transaction
\* like any other store, but commit() skips it: in every reachable state,
\* changes made to it inside the transaction, including those made by
\* inherited listeners and by undo, are never written to the parent scope,
\* and the parent-scope copy changes only through listeners fired by the
\* commit of other stores.
C26_NoCommitStores == []C26_Skipped

\* Inside T the wrapped store was set, which the inherited tracking listener
\* recorded in T's fork of the history store, and undone, which moved the
\* entry to future; the root state of the wrapped store was set before T
\* forked it, which the root copy recorded.  T's commit changes the wrapped
\* store at the root, the root listener records that, and the root copy of
\* the history differs from T's fork before and after.
C26_Witness ==
  \E T \in 1..ntx :
    /\ parent[T] = NoTx
    /\ HasFork(forks, T, Wrapped) /\ HasFork(forks, T, HistoryOf)
    /\ ForkOf(forks, T, HistoryOf).state.future # <<>>
    /\ root[HistoryOf].state.past # <<>>
    /\ root[HistoryOf].state.future = <<>>
    /\ root[HistoryOf].state.tracking
    /\ ForkOf(forks, T, Wrapped).state # root[Wrapped].state
    /\ LET c == commitTracked(World, T, 1)
       IN /\ c.root[Wrapped].state = ForkOf(forks, T, Wrapped).state
          /\ c.root[HistoryOf].state # root[HistoryOf].state
          /\ c.root[HistoryOf].state # ForkOf(forks, T, HistoryOf).state
          /\ c.root[HistoryOf].state.past[1] = root[Wrapped].state

\* ------------------------------------------------------------------ C27
\* undo() followed by redo(), both called with amb ambient.
UndoRedo(amb) == redo(undo(World, amb), amb)

\* C27 as stated: with the default diff and patch and a non-empty past,
\* undo() followed by redo() restores the state of the store and leaves past
\* and future as they were before the undo.
C27_AsStated ==
  \A amb \in 0..ntx :
    (app.diff = "default" /\ get(World, amb, HistoryOf).past # <<>>) =>
      /\ get(UndoRedo(amb), amb, Wrapped) = get(World, amb, Wrapped)
      /\ get(UndoRedo(amb), amb, HistoryOf) = get(World, amb, HistoryOf)

\* With the default diff and patch and a non-empty past.  undo() sets the
\* store to the head of past, unless the store's equality function reports
\* it equal to the current state, takes that head off past, puts the state
\* the store had in front of future, and records nothing.  redo() after it
\* sets the store back to the state it had, puts the state undo left in front
\* of past and restores future, and records nothing.  With Object.is as the
\* store's equality function the two calls leave the world as it was (with
\* the forks a first access creates), so they can be repeated any number of
\* times; the same holds for redo() followed by undo() with a non-empty
\* future.
C27_UndoThenRedo ==
  \A amb \in 0..ntx :
    LET h == get(World, amb, HistoryOf)
        state == get(World, amb, Wrapped)
        resolved == getInternals(getInternals(World, amb, HistoryOf), amb,
                                 Wrapped)
    IN app.diff = "default" =>
         /\ h.past # <<>> =>
              LET u == undo(World, amb)
                  r == redo(u, amb)
                  left == Written(Wrapped, state, Head(h.past))
              IN /\ get(u, amb, Wrapped) = left
                 /\ get(u, amb, HistoryOf) =
                      [h EXCEPT !.past = Tail(h.past),
                                !.future = <<state>> \o h.future]
                 /\ get(r, amb, Wrapped) = state
                 /\ get(r, amb, HistoryOf) =
                      [h EXCEPT !.past = <<left>> \o Tail(h.past)]
                 /\ equalFn[Wrapped] = "is" =>
                      /\ r = resolved
                      /\ redo(undo(r, amb), amb) = r
         /\ (h.future # <<>> /\ equalFn[Wrapped] = "is") =>
              undo(redo(World, amb), amb) = resolved

\* C27, amended: history round trip.  For a history-wrapped store with the
\* default diff and patch, Object.is as its equality function and a
\* non-empty past, in every reachable state undo() followed by redo()
\* restores the store's state and leaves the past and future lists as they
\* were before the undo; neither undo nor redo records a new tracking entry,
\* for any number of alternations.  With another equality function the state
\* and future are restored as well, but the head of past is replaced by the
\* state undo left in the store, which is the current state when the
\* equality function reports the two equal.
C27_RoundTrip == []C27_UndoThenRedo

\* Tracking is on, past holds two entries and future one, and the state of
\* the store is not the head of past: undo changes the state, and redo after
\* it restores state, past and future.
C27_Witness ==
  /\ app.diff = "default"
  /\ equalFn[Wrapped] = "is"
  /\ root[HistoryOf].state.tracking
  /\ Len(root[HistoryOf].state.past) = 2
  /\ Len(root[HistoryOf].state.future) = 1
  /\ root[HistoryOf].state.past[1] # root[Wrapped].state
  /\ undo(World, NoTx).root[Wrapped].state # root[Wrapped].state
  /\ UndoRedo(NoTx) = World

\* ------------------------------------------------------------------ C28
\* The bound on one copy of the history store.
WithinLimit(h) ==
  /\ Len(h.past) <= app.limit
  /\ Len(h.past) + Len(h.future) <= app.limit

C28_Bounded ==
  /\ app.limit # Infinity =>
       /\ WithinLimit(root[HistoryOf].state)
       /\ \A T \in 1..ntx :
            HasFork(forks, T, HistoryOf) =>
              WithinLimit(ForkOf(forks, T, HistoryOf).state)
  /\ app.limit = 0 =>
       \A amb \in 0..ntx, seen \in 0..ntx :
         /\ get(undo(World, amb), seen, Wrapped) = get(World, seen, Wrapped)
         /\ get(redo(World, amb), seen, Wrapped) = get(World, seen, Wrapped)

\* C28: history limit.  For a history-wrapped store created with limit = L
\* (L >= 0), the past list holds at most L entries in every reachable state,
\* under any sequence of set, undo, redo, clear, startTracking and
\* stopTracking, in the root copy of the history store and in every fork of
\* it (redo does not slice, but past and future together never hold more than
\* L entries); with L = 0 undo never changes the store.
C28_HistoryLimit == []C28_Bounded

\* limit is 2, tracking is on and past is full: a set of the wrapped store
\* to a new state records the previous state and drops the oldest entry.
C28_Witness ==
  /\ app.limit = MaxLimit
  /\ root[HistoryOf].state.tracking
  /\ Len(root[HistoryOf].state.past) = app.limit
  /\ \E v \in Values :
       /\ ~Equal(equalFn[Wrapped], root[Wrapped].state, v)
       /\ trackedSet(World, NoTx, v, TRUE).root[HistoryOf].state.past =
            <<root[Wrapped].state>>
              \o SubSeq(root[HistoryOf].state.past, 1, app.limit - 1)

\* ------------------------------------------------------------------ C37
\* The stores of a fork map, in insertion order.
ForkedStores(fk, tx) == [i \in 1..Len(fk[tx]) |-> fk[tx][i].store]

C37_Closed ==
  \A T \in 1..ntx, s \in Stores :
    HasFork(forks, T, s) =>
      /\ s \in app.stores
      /\ ~nofork[s]
      /\ \A a \in 1..ntx : Ancestor(a, T) => HasFork(forks, a, s)
      /\ Cardinality({i \in 1..Len(forks[T]) : forks[T][i].store = s}) = 1
      /\ \A bad \in Throwers :
           ForkedStores(commit(World, T, bad).w.forks, T) =
             ForkedStores(forks, T)

\* C37: fork closure invariant.  In every reachable state, if a transaction
\* T holds a fork for container C then every ancestor of T also holds a fork
\* for C, because the first access creates the missing forks along the whole
\* parent chain, outermost first; fork maps only grow and a fork, once
\* created, is never replaced or removed, not even by commit: in every step
\* the entries a fork map held stay at their place, for the same container,
\* and a step that gives T a fork for C leaves every ancestor of T with one.
C37_ForkClosure ==
  /\ []C37_Closed
  /\ [][\/ forks' = forks
        \/ \A T \in 1..ntx :
             /\ Len(forks'[T]) >= Len(forks[T])
             /\ SubSeq(ForkedStores(forks', T), 1, Len(forks[T])) =
                  ForkedStores(forks, T)]_vars

\* A transaction nested two deep holds a fork, and so do its parent and its
\* grandparent: its fork holds the state of its parent's fork, which is not
\* the state of the grandparent's fork, which is not the root state.
C37_Witness ==
  \E T \in 1..ntx, s \in app.stores :
    /\ parent[T] # NoTx
    /\ parent[parent[T]] # NoTx
    /\ HasFork(forks, T, s)
    /\ HasFork(forks, parent[T], s)
    /\ HasFork(forks, parent[parent[T]], s)
    /\ ForkOf(forks, T, s).state = ForkOf(forks, parent[T], s).state
    /\ ForkOf(forks, parent[T], s).state
         # ForkOf(forks, parent[parent[T]], s).state
    /\ ForkOf(forks, parent[parent[T]], s).state # root[s].state

\* ------------------------------------------------------------------ C38
\* The first entry of T's fork map that commit sets, 0 when there is none.
FirstCommitted(T) ==
  IF \E i \in 1..Len(forks[T]) : ~nocommit[forks[T][i].store]
  THEN CHOOSE i \in 1..Len(forks[T]) :
         /\ ~nocommit[forks[T][i].store]
         /\ \A j \in 1..(i - 1) : nocommit[forks[T][j].store]
  ELSE 0

\* No act call is executing exactly when the call stack holds no frame; then
\* the ambient transaction is null, whatever promises are pending or settled
\* and whatever reaction is queued.  Otherwise it is the transaction of the
\* innermost call.  A commit of T, run from any state, makes its sets with
\* the parent of T ambient (its first effective set changes the parent's
\* fork and not the root when T has a parent) and leaves the ambient
\* transaction as it found it.
C38_Idle ==
  /\ stack = <<>> => scope = NoTx
  /\ stack # <<>> => scope = stack[Len(stack)].tx
  /\ \A T \in 1..ntx :
       /\ promise[T] # "none" /\ stack = <<>> => scope = NoTx
       /\ LET i == FirstCommitted(T)
          IN  (i # 0 /\ parent[T] # NoTx /\ ~nofork[forks[T][i].store]) =>
                LET s == forks[T][i].store
                    c == commit(World, T, {}).w
                IN  /\ HasFork(c.forks, parent[T], s)
                    /\ ForkOf(c.forks, parent[T], s).state =
                         Written(s, get(World, parent[T], s),
                                 forks[T][i].state)
                    /\ c.root[s] = root[s]

\* C38: idle ambient invariant.  Whenever no act or commit call is executing
\* (in particular at the start of every asynchronous continuation, timer
\* callback or promise reaction) the ambient transaction is null; during
\* nested act and commit calls it equals the transaction argument of the
\* innermost active call.  Every step that leaves no call executing leaves
\* the ambient transaction null, and a promise reaction starts and ends with
\* it null.
C38_IdleAmbient ==
  /\ []C38_Idle
  /\ [][/\ stack' = <<>> => scope' = NoTx
        /\ (promise' # promise /\ stack = <<>>) =>
             (stack' = <<>> /\ scope = NoTx /\ scope' = NoTx)]_vars

\* The function of an asynchronous transaction() has returned its promise
\* after making a set through act: the promise is pending, no call is
\* executing, the transaction holds a fork that differs from the root, and a
\* continuation starts with no ambient transaction.
C38_Witness ==
  \E T \in 1..ntx, s \in app.stores :
    /\ promise[T] = "pending"
    /\ stack = <<>>
    /\ scope = NoTx
    /\ HasFork(forks, T, s)
    /\ ForkOf(forks, T, s).state # root[s].state
    /\ ENABLED Fulfil(T)
    /\ ENABLED Act(T)

\* ------------------------------------------------------------------ C36
\* For a store that carries nofork, whatever transaction is ambient: get
\* returns the root state and creates no fork; set is the set made with no
\* ambient transaction (same world, same listener calls, same outcome): it
\* writes the root state and calls the root listeners in order; subscribe
\* registers in the root Internals; no fork map holds the store, and no
\* commit changes its Internals.
C36_AtRoot ==
  \A s \in app.stores :
    nofork[s] =>
      /\ \A T \in 1..ntx :
           /\ ~HasFork(forks, T, s)
           /\ \A bad \in Throwers :
                commit(World, T, bad).w.root[s] = root[s]
      /\ \A amb \in 0..ntx :
           /\ get(World, amb, s) = root[s].state
           /\ getInternals(World, amb, s) = World
           /\ \A v \in Values, bad \in Throwers :
                LET r == set(World, amb, s, v, bad)
                IN  /\ r = set(World, NoTx, s, v, bad)
                    /\ r.w.forks = forks
                    /\ r.w.root[s].state = Written(s, root[s].state, v)
                    /\ r.w.root[s].listeners = root[s].listeners
                    /\ ~Equal(equalFn[s], root[s].state, v) =>
                         r.fired = Notify(root[s].listeners, NoTx, s, v,
                                          root[s].state, bad)
           /\ \A l \in app.listeners, inherit \in BOOLEAN :
                LET w == subscribe(World, amb, s, l, inherit)
                IN  /\ w.forks = forks
                    /\ w.root[s].listeners =
                         MapSet(root[s].listeners, l, inherit)
                    /\ w.root[s].state = root[s].state

\* C36: no-fork stores bypass transactions.  For a store carrying the nofork
\* flag, get, set and subscribe always resolve to the root Internals even
\* while a transaction is ambient; a set inside a transaction takes effect at
\* the root immediately, notifies root listeners immediately, is not undone
\* when the transaction fails (a step in which a function throws or a promise
\* rejects changes no root Internals), and the store never appears in any
\* transaction's fork map.
C36_NoForkBypass ==
  /\ []C36_AtRoot
  /\ [][\/ root' = root
        \/ /\ ~ \E k \in 1..Len(stack) : Throw(k)
           /\ ~ \E tx \in 1..ntx : Reject(tx)]_vars

\* The function of a transaction() nested in another is running, the store
\* carries nofork and has a root listener, its root state has been changed,
\* a set made now changes the root state again and calls the listener, and
\* the function can throw through both calls.
C36_Witness ==
  \E s \in app.stores :
    /\ nofork[s]
    /\ Len(stack) = 2
    /\ scope # NoTx
    /\ parent[scope] # NoTx
    /\ root[s].listeners # <<>>
    /\ root[s].state # 0
    /\ \E v \in Values :
         /\ set(World, scope, s, v, {}).w.root[s].state = v
         /\ v # root[s].state
         /\ Len(set(World, scope, s, v, {}).fired) = 1
    /\ ENABLED Throw(2)

\* ------------------------------------------------------------------ C35
\* The Internals of store that a call made with amb ambient found unchanged
\* in world w: the root Internals and, in a transaction, the fork map entry.
Untouched(w, amb, store) ==
  /\ w.root[store] = root[store]
  /\ Home(amb, store) # NoTx =>
       /\ HasFork(w.forks, amb, store) = HasFork(forks, amb, store)
       /\ HasFork(forks, amb, store) =>
            ForkOf(w.forks, amb, store) = ForkOf(forks, amb, store)

\* A set, made with any ambient transaction, that changes the state while a
\* listener of the resolved Internals throws: the state is written, the
\* listeners are called in order up to the one that throws, and the call
\* throws.  A commit in which a listener throws: the last listener called is
\* the one that throws, the container it was called for holds the state of
\* the fork in the parent scope, and the containers after it in the fork map
\* are as they were there.
C35_Thrown ==
  /\ \A amb \in 0..ntx, s \in app.stores, v \in Values, bad \in Throwers :
       LET w1 == getInternals(World, amb, s)
           current == InternalsAt(w1, Home(amb, s), s)
           n == FirstBad(current.listeners, bad)
           r == set(World, amb, s, v, bad)
       IN  (n # 0 /\ ~Equal(equalFn[s], current.state, v)) =>
             /\ r.threw
             /\ get(r.w, amb, s) = v
             /\ InternalsAt(r.w, Home(amb, s), s).listeners =
                  current.listeners
             /\ Len(r.fired) = n
             /\ \A i \in 1..n :
                  /\ r.fired[i].listener = current.listeners[i].listener
                  /\ r.fired[i].new = v
                  /\ r.fired[i].old = current.state
             /\ r.fired[n].listener \in bad
             /\ \A i \in 1..(n - 1) : r.fired[i].listener \notin bad
  /\ \A T \in 1..ntx, bad \in Throwers :
       LET c == commit(World, T, bad)
       IN  /\ c.threw =>
                LET last == c.fired[Len(c.fired)]
                    i == ForkIndex(forks, T, last.store)
                IN  /\ last.listener \in bad
                    /\ last.at = Home(parent[T], last.store)
                    /\ last.new = forks[T][i].state
                    /\ get(c.w, parent[T], last.store) = forks[T][i].state
                    /\ \A j \in (i + 1)..Len(forks[T]) :
                         Untouched(c.w, parent[T], forks[T][j].store)
           /\ ~c.threw =>
                \A e \in 1..Len(c.fired) : c.fired[e].listener \notin bad

\* C35: listener failure.  If a listener throws during set, the new state
\* stays written in the visible Internals, the listeners later in
\* subscription order are not invoked for that transition, and the exception
\* propagates to the caller of set; when this happens inside commit, the
\* containers later in the fork map are not committed.
C35_ListenerFailure == []C35_Thrown

\* Two listeners are subscribed to a store at the root; a set that changes
\* the state while the first throws is written, calls the first only, and
\* can unwind the transaction() call around it.
C35_Witness ==
  \E s \in app.stores :
    /\ Len(root[s].listeners) = 2
    /\ stack # <<>>
    /\ \E v \in Values :
         LET r == set(World, NoTx, s, v, {root[s].listeners[1].listener})
         IN  /\ r.threw
             /\ r.w.root[s].state = v
             /\ v # root[s].state
             /\ Len(r.fired) = 1
             /\ ENABLED Set(NoTx, s, v, {root[s].listeners[1].listener}, 1)

\* ------------------------------------------------------------------ C33
\* The scopes that hold Internals of store: the root and the transactions
\* with a fork of it.
Holders(store) == {NoTx} \cup {U \in 1..ntx : HasFork(forks, U, store)}

\* The listener sets of all scopes but that of transaction T are in world w
\* what they are now, apart from those of forks created since, which hold
\* the inheritable listeners of the scope they were seeded from.
OtherListenersKept(w, T) ==
  \A s \in Stores :
    /\ w.root[s].listeners = root[s].listeners
    /\ \A U \in (1..ntx) \ {T} :
         IF HasFork(forks, U, s)
         THEN ForkOf(w.forks, U, s).listeners = ForkOf(forks, U, s).listeners
         ELSE HasFork(w.forks, U, s) =>
                ForkOf(w.forks, U, s).listeners =
                  VisibleListeners(World, U, s)

\* For a fork that transaction T holds of store s.  A subscription made with
\* another transaction or none ambient leaves the fork as it is, so a
\* listener the fork does not hold is not called by a set made with T
\* ambient after it was subscribed at an outer scope with inherit = true.
\* The function returned by a subscription in another scope leaves the fork
\* as it is, so a listener the fork holds is still called by an effective
\* set made with T ambient after it, unless a listener before it throws.
\* A subscription made with T ambient and the function it returns change the
\* listeners of T's fork only.  A commit changes the listeners of no
\* Internals.
C33_Copied ==
  LET throwers == Throwers
      Forked(s) == {T \in 1..ntx : HasFork(forks, T, s)}
  IN
  /\ \A s \in app.stores :
       Forked(s) # {} =>
         \A l \in app.listeners :
           /\ \A outer \in 0..ntx, inherit \in BOOLEAN :
                LET w == subscribe(World, outer, s, l, inherit)
                IN  /\ \A T \in Forked(s) \ {outer} :
                         /\ ForkOf(w.forks, T, s) = ForkOf(forks, T, s)
                         /\ l \notin ListenersOf(ForkOf(forks, T, s).listeners)
                              => \A v \in Values, bad \in throwers :
                                   l \notin Invoked(set(w, T, s, v, bad).fired)
                    /\ outer \in Forked(s) => OtherListenersKept(w, outer)
           /\ \A at \in Holders(s) :
                LET w == unsubscribe(World, at, s, l)
                IN  /\ \A T \in Forked(s) \ {at} :
                         /\ ForkOf(w.forks, T, s) = ForkOf(forks, T, s)
                         /\ l \in ListenersOf(ForkOf(forks, T, s).listeners)
                              => \A v \in Values :
                                   ~Equal(equalFn[s],
                                          ForkOf(forks, T, s).state, v) =>
                                     l \in Invoked(set(w, T, s, v, {}).fired)
                    /\ at # NoTx => OtherListenersKept(w, at)
  /\ \A T \in 1..ntx :
       forks[T] # <<>> =>
         \A bad \in throwers :
           LET c == commit(World, T, bad).w
           IN  /\ OtherListenersKept(c, T)
               /\ \A i \in 1..Len(forks[T]) :
                    c.forks[T][i].listeners = forks[T][i].listeners

\* C33: a fork's listener set is a copy taken when the fork is created: an
\* inheritable listener subscribed at an outer scope after the fork exists
\* is never invoked for sets inside that fork, and an inheritable listener
\* whose unsubscribe function is called at the outer scope after the fork
\* exists is still invoked for sets inside that fork; subscribing or
\* unsubscribing inside a fork never changes the listener set of any other
\* scope, and commit transfers state only, never listeners.
C33_ForkListenerCopy == []C33_Copied

\* A listener was subscribed at the root with inherit = true, a transaction
\* forked the store, and the function the subscription returned has been
\* called: the root holds no listener, the fork still holds the copy, and an
\* effective set made in the transaction calls it.
C33_Witness ==
  \E s \in app.stores, T \in 1..ntx, u \in unsubs :
    /\ u.called /\ u.at = NoTx /\ u.store = s
    /\ root[s].listeners = <<>>
    /\ HasFork(forks, T, s)
    /\ ForkOf(forks, T, s).listeners =
         <<[listener |-> u.listener, inherit |-> TRUE]>>
    /\ \E v \in Values :
         Invoked(set(World, T, s, v, {}).fired) = {u.listener}

\* ------------------------------------------------------------------ C39
\* How many times listener function l occurs in a sequence of entries or of
\* listener calls.
Occurrences(seq, l) ==
  Cardinality({i \in 1..Len(seq) : seq[i].listener = l})

\* The listeners a call on store resolves to in world w with amb ambient.
ResolvedListeners(w, amb, store) ==
  InternalsAt(getInternals(w, amb, store), Home(amb, store), store).listeners

\* Listener l is subscribed to store s twice with the same ambient
\* transaction, with any two inherit flags.  The two functions returned are
\* closures over the same Map and the same listener function, so calling
\* either is the same call.  After the second subscription the Internals
\* hold l once, at the place the first subscription gave it (the place it
\* had before, the end when it was not registered), with the flag of the
\* second, and the other entries are as they were: the world is the one a
\* single subscription with the second flag leaves.  An effective set
\* calls l once.  Calling a returned function removes l and nothing else, and
\* calling a returned function after that changes nothing.
C39_Once ==
  \A amb \in 0..ntx, s \in app.stores, l \in app.listeners :
    LET at == Home(amb, s)
        before == ResolvedListeners(World, amb, s)
    IN  \A second \in BOOLEAN :
          LET w2 == subscribe(World, amb, s, l, second)
              ls2 == InternalsAt(w2, at, s).listeners
              gone == unsubscribe(w2, at, s, l)
          IN  /\ \A first \in BOOLEAN :
                   subscribe(subscribe(World, amb, s, l, first),
                             amb, s, l, second) = w2
              /\ Occurrences(ls2, l) = 1
              /\ IF l \in ListenersOf(before)
                 THEN /\ Len(ls2) = Len(before)
                      /\ \A i \in 1..Len(before) :
                           /\ ls2[i].listener = before[i].listener
                           /\ before[i].listener # l => ls2[i] = before[i]
                           /\ before[i].listener = l =>
                                ls2[i].inherit = second
                 ELSE ls2 = Append(before, [listener |-> l,
                                            inherit |-> second])
              /\ \A v \in Values :
                   Occurrences(set(w2, amb, s, v, {}).fired, l) =
                     IF Equal(equalFn[s], InternalsAt(w2, at, s).state, v)
                     THEN 0 ELSE 1
              /\ InternalsAt(gone, at, s).listeners =
                   SelectSeq(before, LAMBDA e : e.listener # l)
              /\ InternalsAt(gone, at, s).state =
                   InternalsAt(w2, at, s).state
              /\ unsubscribe(gone, at, s, l) = gone

\* C39: duplicate subscription.  Subscribing the same listener function
\* twice to the same scope registers it once; it is invoked once per
\* effective set, keeps its original position in the notification order, and
\* calling either of the two returned unsubscribe functions removes it, after
\* which the other unsubscribe is a no-op.
C39_DuplicateSubscription == []C39_Once

\* A listener is subscribed at the root with inherit = true, the application
\* holds the function returned and has not called it, and it can subscribe
\* the listener again with inherit = false: the root then holds it once, and
\* a second listener subscribed after it is called after it.
C39_Witness ==
  \E s \in app.stores, u \in unsubs :
    /\ ~u.called /\ u.at = NoTx /\ u.store = s
    /\ root[s].listeners = <<[listener |-> u.listener, inherit |-> TRUE]>>
    /\ ENABLED Subscribe(NoTx, s, u.listener, FALSE, TRUE)
    /\ \E l2 \in app.listeners \ {u.listener} :
         LET w == subscribe(subscribe(World, NoTx, s, l2, FALSE),
                            NoTx, s, u.listener, FALSE)
         IN  /\ Len(w.root[s].listeners) = 2
             /\ w.root[s].listeners[1].listener = u.listener
             /\ \E v \in Values :
                  Len(set(w, NoTx, s, v, {}).fired) = 2

\* ------------------------------------------------------------------ C32
\* The function of an asynchronous transaction() has returned its promise
\* and a continuation of it runs from the event loop: no call is executing.
Suspended(T) == promise[T] = "pending" /\ stack = <<>>

\* While the function of T is suspended, a set made by its continuation
\* outside act runs with the ambient transaction of the continuation, which
\* is null: it is the set made at the root.  It writes the root state, unless
\* the equality function reports it equal, calls the root listeners in order
\* up to the first that throws, and changes no fork, that of T included, so
\* get() through T.act does not return it once T holds a fork.
C32_Escaped ==
  \A T \in 1..ntx :
    Suspended(T) =>
      /\ scope = NoTx
      /\ \A s \in app.stores, v \in Values, bad \in Throwers :
           LET r == set(World, scope, s, v, bad)
           IN  /\ r.w.forks = forks
               /\ r.w.root[s].state = Written(s, root[s].state, v)
               /\ get(r.w, NoTx, s) = Written(s, root[s].state, v)
               /\ r.fired =
                    IF Equal(equalFn[s], root[s].state, v) THEN <<>>
                    ELSE Notify(root[s].listeners, NoTx, s, v,
                                root[s].state, bad)
               /\ (HasFork(forks, T, s) /\ ~nofork[s]) =>
                    get(r.w, T, s) = ForkOf(forks, T, s).state

\* C32: writes after a suspension point that are not wrapped in act escape
\* the transaction.  Inside the body of an asynchronous transaction(fn), a
\* set executed after an await and outside act runs with the ambient
\* transaction of that continuation (null when started from the event loop),
\* so it changes the root immediately, notifies root listeners immediately,
\* and is not undone when the transaction later fails: the step in which the
\* promise of the function rejects changes no Internals.
C32_WritesAfterSuspension ==
  /\ []C32_Escaped
  /\ [][\/ promise' = promise
        \/ \A T \in 1..ntx :
             (promise[T] = "pending" /\ promise'[T] = "rejected") =>
               (root' = root /\ forks' = forks)]_vars

\* The function of an asynchronous transaction() is suspended after a set
\* through act; the root state has been changed since the store was
\* created, differs from the state of the transaction's fork, a root
\* listener is subscribed, a set made now changes the root state and calls
\* it, and the promise of the function can reject.
C32_Witness ==
  \E T \in 1..ntx, s \in app.stores :
    /\ Suspended(T)
    /\ HasFork(forks, T, s)
    /\ root[s].state # 0
    /\ ForkOf(forks, T, s).state # root[s].state
    /\ ForkOf(forks, T, s).state # 0
    /\ root[s].listeners # <<>>
    /\ \E v \in Values :
         /\ v # ForkOf(forks, T, s).state
         /\ set(World, scope, s, v, {}).w.root[s].state = v
         /\ Len(set(World, scope, s, v, {}).fired) = 1
    /\ ENABLED Reject(T)

\* ------------------------------------------------------------------ C31
\* A set whose listeners call get() on every store of the application when
\* they are called (create.ts line 37 runs the listener after line 35 wrote
\* the state).  reads holds, for each listener call, the store the call was
\* made for and the state get() returned for each store; the calls of get()
\* create the forks that are missing under amb.
RECURSIVE getAll(_, _, _)
getAll(w, amb, ss) ==
  IF ss = {} THEN w
  ELSE LET s == CHOOSE x \in ss : TRUE
       IN getAll(getInternals(w, amb, s), amb, ss \ {s})

readingSet(w, amb, store, nextState, bad) ==
  LET r == set(w, amb, store, nextState, bad)
      values == [s \in app.stores |-> get(r.w, amb, s)]
  IN [w |-> IF r.fired = <<>> THEN r.w ELSE getAll(r.w, amb, app.stores),
      fired |-> r.fired, threw |-> r.threw,
      reads |-> [k \in 1..Len(r.fired) |->
                   [listener |-> r.fired[k].listener, for |-> store,
                    values |-> values]]]

\* (a commit that visits the forks from the last one created to the first)
RECURSIVE commitReadingBackwards(_, _, _, _, _)
commitReadingBackwards(w, tx, i, bad, done) ==
  LET j == Len(w.forks[tx]) + 1 - i
  IN IF i > Len(w.forks[tx]) THEN [done EXCEPT !.w = w]
     ELSE IF nocommit[w.forks[tx][j].store]
          THEN commitReadingBackwards(w, tx, i + 1, bad, done)
          ELSE LET r == readingSet(w, Target(tx), w.forks[tx][j].store,
                                   w.forks[tx][j].state, bad)
                   next == [w |-> r.w, fired |-> done.fired \o r.fired,
                            threw |-> r.threw,
                            reads |-> done.reads \o r.reads]
               IN IF r.threw THEN next
                  ELSE commitReadingBackwards(r.w, tx, i + 1, bad, next)

\* tx.commit() with such listeners: tx.forks.forEach visits the entries of
\* the Map in insertion order, from entry i on.
RECURSIVE commitReading(_, _, _, _, _)
commitReading(w, tx, i, bad, done) ==
  IF i > Len(w.forks[tx]) THEN [done EXCEPT !.w = w]
  ELSE IF nocommit[w.forks[tx][i].store]
       THEN commitReading(w, tx, i + 1, bad, done)
       ELSE LET r == readingSet(w, Target(tx), w.forks[tx][i].store,
                                w.forks[tx][i].state, bad)
                next == [w |-> r.w, fired |-> done.fired \o r.fired,
                         threw |-> r.threw, reads |-> done.reads \o r.reads]
            IN IF r.threw THEN next
               ELSE commitReading(r.w, tx, i + 1, bad, next)

NothingRead(w) ==
  [w |-> w, fired |-> <<>>, threw |-> FALSE, reads |-> <<>>]

\* A commit of T, whatever the listeners read: the listener calls and the
\* states left in the parent scope are those of the commit whose listeners
\* read nothing; the calls are made in the order of the fork map; a listener
\* called for the container at entry i of the fork map reads, with get(),
\* the state the parent scope had before the commit for every container at a
\* later entry, the state of T's fork for the container at entry i, and the
\* state the commit left for every container at an earlier entry that commit
\* writes.
C31_Reads ==
  \A T \in 1..ntx :
    forks[T] # <<>> =>
      \A bad \in Throwers :
        LET c == commitReading(World, T, 1, bad, NothingRead(World))
            plain == commit(World, T, bad)
        IN  /\ c.fired = plain.fired
            /\ c.threw = plain.threw
            /\ parent[T] = NoTx => c.w = plain.w
            /\ \A s \in app.stores :
                 Visible(c.w, parent[T], s) = Visible(plain.w, parent[T], s)
            /\ Len(c.reads) = Len(c.fired)
            /\ \A a, b \in 1..Len(c.fired) :
                 a < b => ForkIndex(forks, T, c.fired[a].store)
                            <= ForkIndex(forks, T, c.fired[b].store)
            /\ \A k \in 1..Len(c.reads) :
                 LET i == ForkIndex(forks, T, c.reads[k].for)
                 IN  \A j \in 1..Len(forks[T]) :
                       LET s == forks[T][j].store
                           was == Visible(World, parent[T], s)
                       IN  c.reads[k].values[s] =
                             IF j > i \/ nocommit[s] THEN was
                             ELSE IF j = i THEN forks[T][j].state
                             ELSE Written(s, was, forks[T][j].state)

\* C31: commit writes containers one at a time, in the order their forks
\* were created in the transaction (first access, whether read or write): a
\* listener invoked for one container during the commit that calls get() on
\* a container later in that order reads its previous, not-yet-committed
\* parent-scope state.
C31_CommitOrder == []C31_Reads

\* A root-level transaction forked two containers and changed both, a
\* listener is subscribed at the root to the one forked first, and the
\* commit can run: the listener, called for the first container, reads the
\* root state the second had before the commit, which is not the state the
\* commit leaves there.
C31_Witness ==
  \E T \in 1..ntx :
    /\ parent[T] = NoTx
    /\ Len(forks[T]) = 2
    /\ ENABLED Commit(T, {}, 0)
    /\ LET first == forks[T][1].store
           second == forks[T][2].store
           c == commitReading(World, T, 1, {}, NothingRead(World))
       IN  /\ root[first].listeners # <<>>
           /\ forks[T][1].state # root[first].state
           /\ forks[T][2].state # root[second].state
           /\ Len(c.reads) = 1
           /\ c.reads[1].for = first
           /\ c.reads[1].values[second] = root[second].state
           /\ c.w.root[second].state = forks[T][2].state
           /\ c.w.root[second].state # c.reads[1].values[second]

\* ------------------------------------------------------------------ C34
\* (a notification loop that puts off the set a listener makes until every
\* listener has been called)
notifyDeferred(acc, amb, store, ls, k, new, old, reactor, nested) ==
  LET at == Home(amb, store)
      calls == [i \in 1..(Len(ls) + 1 - k) |->
                  [at |-> at, store |-> store,
                   listener |-> ls[i + k - 1].listener,
                   new |-> new, old |-> old]]
      r == set(acc.w, amb, store, nested, {})
  IN IF reactor \in ListenersOf(ls)
     THEN [w |-> r.w, fired |-> acc.fired \o calls \o r.fired]
     ELSE [w |-> acc.w, fired |-> acc.fired \o calls]

\* create.ts set when the listener function reactor calls store.set(nested)
\* each time it is called, under the ambient transaction of the outer set
\* (no listener throws).  The outer call has written the state (line 35)
\* when its loop (lines 36 to 38) calls the listener; the nested call runs to
\* its end, its own loop included, inside that listener call, and the outer
\* loop then goes on with the arguments it took before (line 29).  The
\* equality test of line 34 ends the recursion.
RECURSIVE reentrantSet(_, _, _, _, _, _)
RECURSIVE notifyFrom(_, _, _, _, _, _, _, _, _)
notifyFrom(acc, amb, store, ls, k, new, old, reactor, nested) ==
  IF k > Len(ls) THEN acc
  ELSE LET call == [at |-> Home(amb, store), store |-> store,
                    listener |-> ls[k].listener, new |-> new, old |-> old]
           r == reentrantSet(acc.w, amb, store, nested, reactor, nested)
           after == IF ls[k].listener = reactor
                    THEN [w |-> r.w,
                          fired |-> Append(acc.fired, call) \o r.fired]
                    ELSE [w |-> acc.w, fired |-> Append(acc.fired, call)]
       IN notifyFrom(after, amb, store, ls, k + 1, new, old, reactor, nested)

reentrantSet(w, amb, store, nextState, reactor, nested) ==
  LET w1 == getInternals(w, amb, store)
      at == Home(amb, store)
      current == InternalsAt(w1, at, store)
  IN IF Equal(equalFn[store], current.state, nextState)
     THEN [w |-> w1, fired |-> <<>>]
     ELSE notifyFrom([w |-> PutInternals(w1, at, store,
                                         [current EXCEPT !.state = nextState]),
                      fired |-> <<>>],
                     amb, store, current.listeners, 1, nextState,
                     current.state, reactor, nested)

\* The calls of listener function l in a sequence of listener calls, in
\* order, as pairs (new, old).
TransitionsOf(calls, l) ==
  LET mine == SelectSeq(calls, LAMBDA c : c.listener = l)
  IN [i \in 1..Len(mine) |-> <<mine[i].new, mine[i].old>>]

\* The place of listener function l in a sequence of entries, 0 when absent.
PlaceOf(ls, l) ==
  IF l \in ListenersOf(ls)
  THEN CHOOSE i \in 1..Len(ls) : ls[i].listener = l
  ELSE 0

\* An effective set to v, under any ambient transaction, of a store whose
\* listener reactor, at place n, calls set(nested) with nested not equal to
\* v.  The calls made are those of the outer set up to reactor, then all
\* those of the nested set, then the rest of those of the outer set.  The
\* state left is nested.  A listener after reactor is called with
\* (nested, v) and then with (v, old): its last call carries v, not the
\* state of the store.  A listener up to reactor is called with (v, old) and
\* then with (nested, v).  When nested equals v the nested set does nothing.
C34_Nested ==
  \A amb \in 0..ntx, s \in app.stores, reactor \in app.listeners :
    LET ls == ResolvedListeners(World, amb, s)
        n == PlaceOf(ls, reactor)
        old == get(World, amb, s)
        at == Home(amb, s)
    IN  n # 0 =>
          \A v \in Values, nested \in Values :
            LET r == reentrantSet(World, amb, s, v, reactor, nested)
                outer == Notify(ls, at, s, v, old, {})
                inner == Notify(ls, at, s, nested, v, {})
            IN  IF Equal(equalFn[s], old, v) THEN
                  /\ r.fired = <<>>
                  /\ get(r.w, amb, s) = old
                ELSE IF Equal(equalFn[s], v, nested) THEN
                  /\ r.fired = outer
                  /\ get(r.w, amb, s) = v
                ELSE
                  /\ r.fired = SubSeq(outer, 1, n) \o inner
                                 \o SubSeq(outer, n + 1, Len(outer))
                  /\ get(r.w, amb, s) = nested
                  /\ r.w = set(set(World, amb, s, v, {}).w, amb, s, nested,
                               {}).w
                  /\ \A m \in 1..Len(ls) :
                       LET mine == TransitionsOf(r.fired, ls[m].listener)
                       IN  /\ Len(mine) = 2
                           /\ m > n =>
                                /\ mine = << <<nested, v>>, <<v, old>> >>
                                /\ mine[2][1] # get(r.w, amb, s)
                           /\ m <= n =>
                                /\ mine = << <<v, old>>, <<nested, v>> >>
                                /\ mine[2][1] = get(r.w, amb, s)

\* C34: re-entrant set.  When a listener calls set on the same store during
\* a notification, the nested set writes the state and notifies all
\* listeners before the outer notification loop resumes; a listener later in
\* subscription order therefore receives the newer transition first and the
\* older transition afterwards with its original (new, old) arguments, so its
\* last notification does not carry the store's current state.
C34_ReentrantSet == []C34_Nested

\* Two listeners are subscribed at the root; when the first calls set during
\* a notification, the second is called for the nested set and then for the
\* outer one, and the state it received last is not the state of the store.
C34_Witness ==
  \E s \in app.stores :
    /\ Len(root[s].listeners) = 2
    /\ ENABLED Set(NoTx, s, 1, {}, 0)
    /\ \E v \in Values, nested \in Values :
         LET r == reentrantSet(World, NoTx, s, v,
                               root[s].listeners[1].listener, nested)
             mine == TransitionsOf(r.fired, root[s].listeners[2].listener)
         IN  /\ Len(r.fired) = 4
             /\ mine = << <<nested, v>>, <<v, root[s].state>> >>
             /\ r.w.root[s].state = nested
             /\ nested # v

====
